---- MODULE Spec2Model ----
(***************************************************************************)
(* Projection engine (DCFModel) and goal solver (DCFGoalSolver) of the     *)
(* budget application.                                                     *)
(*                                                                         *)
(* Conventions of the model                                                *)
(*   - money is an integer number of currency units, a rate is an integer  *)
(*     number of percent (8 stands for 0.08); x * rate is (x * p) \div 100 *)
(*     and every input of the model is chosen so that these divisions are  *)
(*     exact (the flag "exact" of a table records it);                     *)
(*   - an optional field is <<>> for None and <<v>> for the value v;       *)
(*   - a name is a sequence of characters, <<>> standing for None or "";   *)
(*   - a milestone object is identified by its position in the list.       *)
(***************************************************************************)
EXTENDS Integers, Sequences, FiniteSets, TLC

\* ------------------------------------------------------------------------
\*  Optional values and small helpers
\* ------------------------------------------------------------------------
None == <<>>

Some(x) == <<x>>

IsNone(o) == o = <<>>

Val(o) == o[1]

Max2(a, b) == IF a >= b THEN a ELSE b

Min2(a, b) == IF a <= b THEN a ELSE b

Abs(x) == IF x < 0 THEN -x ELSE x

\* Op applied to the value of v, which is computed once
With(v, Op(_)) == CHOOSE r \in {Op(x) : x \in {v}} : TRUE

\* x * (p / 100) with p a rate in percent
Pct(x, p) == (x * p) \div 100

PctExact(x, p) == (x * p) % 100 = 0

\* a / b for b # 0 (floor), and whether the quotient is a whole number
Div(a, b) == IF b > 0 THEN a \div b ELSE (-a) \div (-b)

DivExact(a, b) == IF b > 0 THEN a % b = 0 ELSE (-a) % (-b) = 0

\* ------------------------------------------------------------------------
\*  Names: str.strip().lower().replace(" ", "_").replace("-", "_")
\* ------------------------------------------------------------------------
Lower(c) ==
    CASE c = "A" -> "a" [] c = "B" -> "b" [] c = "C" -> "c" [] c = "D" -> "d"
      [] c = "E" -> "e" [] c = "F" -> "f" [] c = "G" -> "g" [] c = "H" -> "h"
      [] c = "I" -> "i" [] c = "J" -> "j" [] c = "K" -> "k" [] c = "L" -> "l"
      [] c = "M" -> "m" [] c = "N" -> "n" [] c = "O" -> "o" [] c = "P" -> "p"
      [] c = "Q" -> "q" [] c = "R" -> "r" [] c = "S" -> "s" [] c = "T" -> "t"
      [] c = "U" -> "u" [] c = "V" -> "v" [] c = "W" -> "w" [] c = "X" -> "x"
      [] c = "Y" -> "y" [] c = "Z" -> "z" [] OTHER -> c

RECURSIVE LStrip(_)
LStrip(s) == IF s # <<>> /\ Head(s) = " " THEN LStrip(Tail(s)) ELSE s

RECURSIVE RStrip(_)
RStrip(s) ==
    IF s # <<>> /\ s[Len(s)] = " " THEN RStrip(SubSeq(s, 1, Len(s) - 1)) ELSE s

Strip(s) == RStrip(LStrip(s))

_norm_name(s) ==
    With(Strip(s), LAMBDA t :
      [i \in 1..Len(t) |->
          With(Lower(t[i]), LAMBDA c : IF c = " " \/ c = "-" THEN "_" ELSE c)])

\* name_to_ms: a dict comprehension over the list, so of several milestones
\* with one normalised name the last one is kept; 0 stands for "no entry"
name_to_ms(M, nm0) ==
    With(nm0, LAMBDA nm :
      With({i \in 1..Len(M) : _norm_name(M[i].name) = nm}, LAMBDA hits :
        IF hits = {} THEN 0 ELSE CHOOSE i \in hits : \A j \in hits : j <= i))

\* ------------------------------------------------------------------------
\*  Dependency resolver.  _vis is one mutable set shared by the whole
\*  recursion, so every call returns the set it leaves behind.
\*  A result is [v |-> optional value, vis |-> set, err |-> BOOLEAN];
\*  err stands for the ValueError of an unresolved reference.
\* ------------------------------------------------------------------------
Ret(v, vis) == [v |-> v, vis |-> vis, err |-> FALSE]

Raise(vis) == [v |-> None, vis |-> vis, err |-> TRUE]

RECURSIVE _effective_duration(_, _, _, _), _effective_age(_, _, _, _)

\* inh is the enclosing scope's inheritance_age (optional)
_effective_duration(M, i, vis, inh) ==
    IF i \in vis THEN Ret(M[i].duration, vis)
    ELSE IF M[i].duration_end_at_milestone # <<>>
    THEN
      With(name_to_ms(M, _norm_name(M[i].duration_end_at_milestone)), LAMBDA tgt :
        IF tgt = 0 THEN Raise(vis \cup {i})
        ELSE
          With(_effective_age(M, tgt, vis \cup {i}, inh), LAMBDA ta :
            IF ta.err THEN ta
            ELSE IF IsNone(ta.v) THEN Ret(M[i].duration, ta.vis)
            ELSE
              LET own == M[i].age_at_occurrence
                  d0  == Max2(Val(ta.v) - own, 0)
                  d1  == IF IsNone(inh) THEN d0
                         ELSE Min2(d0, Max2(0, Val(inh) - own))
              IN  Ret(Some(d1), ta.vis)))
    ELSE IF M[i].disbursement_type = "Fixed Duration" /\ ~IsNone(M[i].duration)
    THEN
      LET own  == M[i].age_at_occurrence
          dval == Val(M[i].duration)
      IN  Ret(Some(IF IsNone(inh) THEN dval
                   ELSE Min2(dval, Max2(0, Val(inh) - own))), vis \cup {i})
    ELSE Ret(None, vis \cup {i})

\* the start age with a revisited milestone treated as an unresolved reference
_effective_age_RevisitRaises(M, i, vis, inh) ==
    IF i \in vis THEN Raise(vis)
    ELSE IF M[i].start_after_milestone # <<>>
    THEN
      With(name_to_ms(M, _norm_name(M[i].start_after_milestone)), LAMBDA tgt :
        IF tgt = 0 THEN Raise(vis \cup {i})
        ELSE
          With(_effective_age(M, tgt, vis \cup {i}, inh), LAMBDA ta :
            IF ta.err THEN ta
            ELSE
              With(_effective_duration(M, tgt, ta.vis, inh), LAMBDA td :
                IF td.err THEN td
                ELSE
                  LET dur == IF IsNone(td.v) THEN 0 ELSE Val(td.v)
                  IN  IF IsNone(ta.v)
                      THEN Ret(Some(M[i].age_at_occurrence), td.vis)
                      ELSE Ret(Some(Val(ta.v) + dur), td.vis))))
    ELSE Ret(Some(M[i].age_at_occurrence), vis \cup {i})

_effective_age(M, i, vis, inh) ==
    IF i \in vis THEN Ret(Some(M[i].age_at_occurrence), vis)
    ELSE IF M[i].start_after_milestone # <<>>
    THEN
      With(name_to_ms(M, _norm_name(M[i].start_after_milestone)), LAMBDA tgt :
        IF tgt = 0 THEN Raise(vis \cup {i})
        ELSE
          With(_effective_age(M, tgt, vis \cup {i}, inh), LAMBDA ta :
            IF ta.err THEN ta
            ELSE
              With(_effective_duration(M, tgt, ta.vis, inh), LAMBDA td :
                IF td.err THEN td
                ELSE
                  LET dur == IF IsNone(td.v) THEN 0 ELSE Val(td.v)
                  IN  IF IsNone(ta.v)
                      THEN Ret(Some(M[i].age_at_occurrence), td.vis)
                      ELSE Ret(Some(Val(ta.v) + dur), td.vis))))
    ELSE Ret(Some(M[i].age_at_occurrence), vis \cup {i})

\* top-level calls start from an empty visited set
EffAge(M, i, inh) == _effective_age(M, i, {}, inh)

EffDur(M, i, inh) == _effective_duration(M, i, {}, inh)

\* ------------------------------------------------------------------------
\*  Generic sequence helpers
\* ------------------------------------------------------------------------
RECURSIVE SumTo(_, _)
SumTo(s, k) == IF k = 0 THEN 0 ELSE s[k] + SumTo(s, k - 1)

SumSeq(s0) == With(s0, LAMBDA s : SumTo(s, Len(s)))

RECURSIVE MinTo(_, _)
MinTo(s, k) == IF k = 1 THEN s[1] ELSE With(MinTo(s, k - 1), LAMBDA m : Min2(s[k], m))

MinSeq(s0) == With(s0, LAMBDA s : MinTo(s, Len(s)))

RECURSIVE MaxTo(_, _)
MaxTo(s, k) == IF k = 1 THEN s[1] ELSE With(MaxTo(s, k - 1), LAMBDA m : Max2(s[k], m))

MaxSeq(s0) == With(s0, LAMBDA s : MaxTo(s, Len(s)))

Indices(M) == [i \in 1..Len(M) |-> i]

\* ------------------------------------------------------------------------
\*  Macro assumptions that from_milestones supplies by default
\* ------------------------------------------------------------------------
InflationDefault == 3

LegacyAssetReturn == 8

DefaultCostOfDebt == 6

\* ------------------------------------------------------------------------
\*  DCFModel.from_milestones
\* ------------------------------------------------------------------------
K_inheritance == <<"i","n","h","e","r","i","t","a","n","c","e">>

K_current_salary ==
    <<"c","u","r","r","e","n","t","_","s","a","l","a","r","y">>

K_current_expenses ==
    <<"c","u","r","r","e","n","t","_","e","x","p","e","n","s","e","s">>

K_current_liquid_assets ==
    <<"c","u","r","r","e","n","t","_","l","i","q","u","i","d","_",
      "a","s","s","e","t","s">>

K_current_liabilities ==
    <<"c","u","r","r","e","n","t","_","l","i","a","b","i","l","i","t","i","e","s">>

FourTypes == {"Asset", "Liability", "Income", "Expense"}

\* key of an opening-state milestone: _CURRENT_MAP.get(norm), else the
\* lower-cased milestone_type
CurrentKey(m) ==
    With(_norm_name(m.name), LAMBDA norm :
        CASE norm = K_current_salary        -> "income"
          [] norm = K_current_expenses      -> "expense"
          [] norm = K_current_liquid_assets -> "asset"
          [] norm = K_current_liabilities   -> "liability"
          [] OTHER -> CASE m.milestone_type = "Asset"     -> "asset"
                        [] m.milestone_type = "Liability" -> "liability"
                        [] m.milestone_type = "Income"    -> "income"
                        [] m.milestone_type = "Expense"   -> "expense"
                        [] OTHER -> "other")

\* horizon of the projection: [err, start_age, end_age, inh, age, dur]
\* (age[i], dur[i]: the top-level effective age / duration of milestone i)
Horizon(M) ==
    IF Len(M) = 0 THEN [err |-> "ValueError"]
    ELSE
      With([i \in 1..Len(M) |-> EffAge(M, i, None)], LAMBDA a0 :
        IF \E i \in 1..Len(M) : a0[i].err THEN [err |-> "ValueError"]
        ELSE
          LET start_age == MinSeq([i \in 1..Len(M) |-> Val(a0[i].v)])
              inh_ms    == {i \in 1..Len(M) : _norm_name(M[i].name) = K_inheritance}
              inh0      == IF inh_ms = {} THEN None
                           ELSE Some(M[CHOOSE i \in inh_ms :
                                          \A j \in inh_ms : i <= j].age_at_occurrence)
          IN  With(inh0, LAMBDA inh :
              With([i \in 1..Len(M) |-> EffDur(M, i, inh)], LAMBDA d :
              With([i \in 1..Len(M) |-> EffAge(M, i, inh)], LAMBDA a :
                IF \E i \in 1..Len(M) : d[i].err \/ a[i].err
                THEN [err |-> "ValueError"]
                ELSE
                  LET cand == [i \in 1..Len(M) |->
                                 IF ~IsNone(d[i].v) /\ Val(d[i].v) > 0
                                 THEN Val(a[i].v) + Val(d[i].v)
                                 ELSE Val(a[i].v)]
                      end0 == MaxSeq(cand)
                  IN  [err       |-> "",
                       start_age |-> start_age,
                       end_age   |-> IF IsNone(inh) THEN end0
                                     ELSE Min2(end0, Val(inh)),
                       inh       |-> inh,
                       age       |-> [i \in 1..Len(M) |-> Val(a[i].v)],
                       dur       |-> [i \in 1..Len(M) |-> d[i].v]]))))

\* GrowingSeries dataclass
GrowingSeries(initial_value, growth_rate, start_step, duration) ==
    [initial_value |-> initial_value, growth_rate |-> growth_rate,
     start_step |-> start_step, duration |-> duration]

\* a loan template (principal, rate_override, duration, payment_override)
\* filed under its age
LoanTemplate(age, principal, rate_override, duration, pay_override) ==
    [age |-> age, principal |-> principal, rate_override |-> rate_override,
     duration |-> duration, pay_override |-> pay_override]

CeilDiv(a, b) == (a + b - 1) \div b

Occurrence(m) == IF m.occurrence = "" THEN "Yearly" ELSE m.occurrence

\* _sum_amount(m_type, age)
_sum_amount(M, h, m_type, age) ==
    SumSeq([i \in 1..Len(M) |->
              IF M[i].milestone_type = m_type /\ h.age[i] = age
              THEN M[i].amount ELSE 0])

\* the dict built in DCFModel.__init__ from the (age, amount) pairs: a later
\* pair of the same age replaces the earlier one
EventDict(events0) ==
    With(events0, LAMBDA events :
      [a \in {events[k][1] : k \in 1..Len(events)} |->
          With({k \in 1..Len(events) : events[k][1] = a}, LAMBDA ks :
            events[CHOOSE k \in ks : \A j \in ks : j <= k][2])])

\* DCFModel.__init__
DCFModelInit(start_age, end_age, assump, initial_assets, initial_liabilities, base_salary, base_expenses, income_streams, expense_streams, asset_events, liability_templates) ==
    [err             |-> "",
     start_age       |-> start_age,
     end_age         |-> end_age,
     assump          |-> assump,
     income_streams  |-> IF base_salary # 0
                         THEN Append(income_streams,
                                GrowingSeries(base_salary, assump.inflation, 0, None))
                         ELSE income_streams,
     expense_streams |-> IF base_expenses # 0
                         THEN Append(expense_streams,
                                GrowingSeries(base_expenses, assump.inflation, 0, None))
                         ELSE expense_streams,
     assets          |-> <<initial_assets>>,
     liabilities     |-> <<initial_liabilities>>,
     asset_events    |-> EventDict(asset_events),
     loan_templates  |-> liability_templates,
     exact           |-> TRUE]

\* the steps of from_milestones after the horizon h is known
Populate(M, h) ==
    LET start_age == h.start_age
        is_cur(i) == h.age[i] = start_age /\ M[i].milestone_type \in FourTypes
    IN  With(SelectSeq(Indices(M), LAMBDA i : is_cur(i)), LAMBDA cur :
        With(SelectSeq(Indices(M), LAMBDA i : ~is_cur(i)), LAMBDA rest :
        With([k \in 1..Len(cur) |-> CurrentKey(M[cur[k]])], LAMBDA key :
          \* current_vals has the keys "asset" and "liability" only
          IF \E k \in 1..Len(cur) : key[k] \notin {"asset", "liability"}
          THEN [err |-> "KeyError"]
          ELSE
            LET cv_asset0 == SumSeq([k \in 1..Len(cur) |->
                               IF key[k] = "asset" THEN M[cur[k]].amount ELSE 0])
                cv_liab   == SumSeq([k \in 1..Len(cur) |->
                               IF key[k] = "liability" THEN M[cur[k]].amount ELSE 0])
                \* the branches "elif key == income / expense" are never
                \* reached without the KeyError above
                current_income_found  == FALSE
                current_expense_found == FALSE
                cv_asset1 == IF cv_asset0 = 0
                             THEN _sum_amount(M, h, "Asset", start_age)
                             ELSE cv_asset0
                base_salary   == IF ~current_income_found
                                 THEN _sum_amount(M, h, "Income", start_age) ELSE 0
                base_expenses == IF ~current_expense_found
                                 THEN _sum_amount(M, h, "Expense", start_age) ELSE 0
                amt(i)    == IF Occurrence(M[i]) = "Monthly"
                                /\ M[i].milestone_type \in {"Income", "Expense"}
                             THEN M[i].amount * 12 ELSE M[i].amount
                growth(i) == IF IsNone(M[i].rate_of_return) THEN InflationDefault
                             ELSE Val(M[i].rate_of_return)
                stream(i) == GrowingSeries(amt(i), growth(i),
                                           h.age[i] - start_age, h.dur[i])
                template(i) ==
                    LET monthly == Occurrence(M[i]) = "Monthly"
                        dur_ms  == IF monthly /\ ~IsNone(h.dur[i])
                                   THEN Some(Max2(CeilDiv(Val(h.dur[i]), 12), 1))
                                   ELSE h.dur[i]
                        pay     == IF IsNone(M[i].payment) THEN None
                                   ELSE IF monthly THEN Some(Val(M[i].payment) * 12)
                                   ELSE M[i].payment
                    IN  LoanTemplate(h.age[i], amt(i), M[i].rate_of_return,
                                     dur_ms, pay)
            IN  With(cv_asset1, LAMBDA cv_asset :
                With(cv_asset = _sum_amount(M, h, "Asset", start_age),
                     LAMBDA legacy_assets_used :
                \* asset_roi_data: every opening-state milestone with a rate
                With(SelectSeq(cur, LAMBDA i : ~IsNone(M[i].rate_of_return)),
                     LAMBDA roi :
                With(SelectSeq(rest, LAMBDA i : M[i].milestone_type = "Income"),
                     LAMBDA inc :
                With(SelectSeq(rest, LAMBDA i : M[i].milestone_type = "Expense"),
                     LAMBDA exp :
                With(SelectSeq(rest, LAMBDA i :
                            M[i].milestone_type = "Asset"
                            /\ ~(legacy_assets_used /\ h.age[i] = start_age)),
                     LAMBDA ast :
                With(SelectSeq(rest, LAMBDA i : M[i].milestone_type = "Liability"),
                     LAMBDA lia :
                With(SumSeq([k \in 1..Len(roi) |-> M[roi[k]].amount]),
                     LAMBDA total_amt :
                With(SumSeq([k \in 1..Len(roi) |->
                               M[roi[k]].amount * Val(M[roi[k]].rate_of_return)]),
                     LAMBDA weighted :
                  LET asset_return == IF roi # <<>>
                                      THEN (IF total_amt # 0
                                            THEN Div(weighted, total_amt) ELSE 0)
                                      ELSE LegacyAssetReturn
                      model == DCFModelInit(
                          start_age, h.end_age,
                          [inflation |-> InflationDefault,
                           rate_of_return |-> asset_return,
                           cost_of_debt |-> DefaultCostOfDebt],
                          cv_asset, cv_liab, base_salary, base_expenses,
                          [k \in 1..Len(inc) |-> stream(inc[k])],
                          [k \in 1..Len(exp) |-> stream(exp[k])],
                          [k \in 1..Len(ast) |-> <<h.age[ast[k]], amt(ast[k])>>],
                          [k \in 1..Len(lia) |-> template(lia[k])])
                  IN  [model EXCEPT !.exact =
                          roi = <<>> \/ total_amt = 0
                          \/ DivExact(weighted, total_amt)]))))))))))))

from_milestones(M0) ==
    With(M0, LAMBDA M :
      With(Horizon(M), LAMBDA h :
        IF h.err # "" THEN [err |-> h.err] ELSE Populate(M, h)))

\* ------------------------------------------------------------------------
\*  GrowingSeries.value_at and AmortisingLoan
\* ------------------------------------------------------------------------
\* x * (1 + p/100) ^ n, one factor at a time
RECURSIVE Grow(_, _, _)
Grow(x, p, n) ==
    IF n = 0 \/ p = 0 THEN x ELSE (Grow(x, p, n - 1) * (100 + p)) \div 100

RECURSIVE GrowExact(_, _, _)
GrowExact(x, p, n) ==
    IF n = 0 \/ p = 0 THEN TRUE
    ELSE GrowExact(x, p, n - 1) /\ (Grow(x, p, n - 1) * (100 + p)) % 100 = 0

\* value_at with the last period of the duration counted twice
value_at_Inclusive(s, step) ==
    IF step < s.start_step THEN 0
    ELSE LET rel_step == step - s.start_step
         IN  IF ~IsNone(s.duration) /\ rel_step > Val(s.duration) THEN 0
             ELSE Grow(s.initial_value, s.growth_rate, rel_step)

value_at(s, step) ==
    IF step < s.start_step THEN 0
    ELSE LET rel_step == step - s.start_step
         IN  IF ~IsNone(s.duration) /\ rel_step >= Val(s.duration) THEN 0
             ELSE Grow(s.initial_value, s.growth_rate, rel_step)

value_exact(s, step) ==
    \/ step < s.start_step
    \/ (~IsNone(s.duration) /\ step - s.start_step >= Val(s.duration))
    \/ GrowExact(s.initial_value, s.growth_rate, step - s.start_step)

RECURSIVE Pow(_, _)
Pow(b, n) == IF n = 0 THEN 1 ELSE b * Pow(b, n - 1)

\* AmortisingLoan dataclass; duration_remaining None stands for math.inf
AmortisingLoan(principal, rate, duration_remaining, payment) ==
    [principal_remaining |-> principal, annual_rate |-> rate,
     duration_remaining |-> duration_remaining, payment |-> payment]

\* the annuity payment (P * r) / (1 - (1 + r) ** -n)
AnnuityNum(principal, rate, n) == principal * rate * Pow(100 + rate, n)

AnnuityDen(rate, n) == 100 * (Pow(100 + rate, n) - Pow(100, n))

\* _make_loan: [err, exact, loan]
_make_loan(principal, rate, duration, payment_override) ==
    IF ~IsNone(payment_override)
    THEN [err |-> "", exact |-> TRUE,
          loan |-> AmortisingLoan(principal, rate, duration, Val(payment_override))]
    ELSE IF IsNone(duration)
    THEN [err |-> "", exact |-> PctExact(principal, rate),
          loan |-> AmortisingLoan(principal, rate, None, Pct(principal, rate))]
    ELSE IF Val(duration) = 0
    THEN [err |-> "ZeroDivisionError", exact |-> TRUE,
          loan |-> AmortisingLoan(principal, rate, duration, 0)]
    ELSE IF rate # 0
    THEN [err |-> "",
          exact |-> DivExact(AnnuityNum(principal, rate, Val(duration)),
                             AnnuityDen(rate, Val(duration))),
          loan |-> AmortisingLoan(principal, rate, duration,
                      Div(AnnuityNum(principal, rate, Val(duration)),
                          AnnuityDen(rate, Val(duration))))]
    ELSE [err |-> "", exact |-> DivExact(principal, Val(duration)),
          loan |-> AmortisingLoan(principal, rate, duration,
                                  Div(principal, Val(duration)))]

\* make_payment without the cap min(principal_repaid, principal_remaining)
make_payment_NoCap(loan) ==
    IF loan.principal_remaining <= 0
    THEN [total_payment |-> 0, principal_repaid |-> 0, loan |-> loan, exact |-> TRUE]
    ELSE
      LET interest == Pct(loan.principal_remaining, loan.annual_rate)
          ok       == PctExact(loan.principal_remaining, loan.annual_rate)
      IN  IF IsNone(loan.duration_remaining)
          THEN [total_payment |-> interest, principal_repaid |-> 0,
                loan |-> loan, exact |-> ok]
          ELSE
            LET repaid == Max2(loan.payment - interest, 0)
            IN  [total_payment |-> loan.payment, principal_repaid |-> repaid,
                 loan |-> [loan EXCEPT
                             !.duration_remaining = Some(Val(@) - 1),
                             !.principal_remaining = @ - repaid],
                 exact |-> ok]

\* make_payment: [total_payment, principal_repaid, loan, exact]
make_payment(loan) ==
    IF loan.principal_remaining <= 0
    THEN [total_payment |-> 0, principal_repaid |-> 0, loan |-> loan, exact |-> TRUE]
    ELSE
      LET interest == Pct(loan.principal_remaining, loan.annual_rate)
          ok       == PctExact(loan.principal_remaining, loan.annual_rate)
      IN  IF IsNone(loan.duration_remaining)
          THEN [total_payment |-> interest, principal_repaid |-> 0,
                loan |-> loan, exact |-> ok]
          ELSE
            LET repaid == Min2(Max2(loan.payment - interest, 0),
                               loan.principal_remaining)
            IN  [total_payment |-> loan.payment, principal_repaid |-> repaid,
                 loan |-> [loan EXCEPT
                             !.duration_remaining = Some(Val(@) - 1),
                             !.principal_remaining = @ - repaid],
                 exact |-> ok]

\* ------------------------------------------------------------------------
\*  DCFModel.run
\* ------------------------------------------------------------------------
\* instantiate the loans of a list of templates, in order, onto `loans`
RECURSIVE InjectLoans(_, _, _)
InjectLoans(specs, cost_of_debt, acc) ==
    IF specs = <<>> \/ acc.err # "" THEN acc
    ELSE
      LET spec == Head(specs)
          rate == IF IsNone(spec.rate_override) THEN cost_of_debt
                  ELSE Val(spec.rate_override)
      IN  With(_make_loan(spec.principal, rate, spec.duration, spec.pay_override),
               LAMBDA made :
          With([err   |-> made.err,
                exact |-> acc.exact /\ made.exact,
                loans |-> IF made.err = "" THEN Append(acc.loans, made.loan)
                          ELSE acc.loans], LAMBDA acc2 :
          With(Tail(specs), LAMBDA tl : InjectLoans(tl, cost_of_debt, acc2))))

TemplatesAt(mdl, age) ==
    SelectSeq(mdl.loan_templates, LAMBDA spec : spec.age = age)

\* debt service of one year over a copy of the active list: every loan pays,
\* a loan at or below 1e-8 is removed
RECURSIVE DebtService(_)
DebtService(loans) ==
    IF loans = <<>> THEN [liab_expense |-> 0, loans |-> <<>>, exact |-> TRUE]
    ELSE
      With(make_payment(Head(loans)), LAMBDA p :
      With(Tail(loans), LAMBDA tl :
      With(DebtService(tl), LAMBDA more :
          [liab_expense |-> p.total_payment + more.liab_expense,
           loans |-> IF p.loan.principal_remaining <= 0 THEN more.loans
                     ELSE <<p.loan>> \o more.loans,
           exact |-> p.exact /\ more.exact])))

PrincipalSum(loans) ==
    SumSeq([k \in 1..Len(loans) |-> loans[k].principal_remaining])

Row(age, a_begin, a_income, l_begin, liab_expense, salary, expenses) ==
    [Age |-> age, BeginningAssets |-> a_begin, AssetsIncome |-> a_income,
     BeginningLiabilities |-> l_begin, LiabilitiesExpense |-> liab_expense,
     Salary |-> salary, Expenses |-> expenses]

\* beginning-of-year assets: the previous balance plus this age's event
BeginAssets(a_begin_prev, events, age) ==
    a_begin_prev + (IF age \in DOMAIN events THEN events[age] ELSE 0)

\* year-end assets without the income on assets
NextAssets_NoIncome(a_begin, a_income, salary, expenses, liab_expense) ==
    a_begin + salary - expenses - liab_expense

\* year-end assets
NextAssets(a_begin, a_income, salary, expenses, liab_expense) ==
    LET net_saving == salary - expenses - liab_expense
    IN  a_begin + a_income + net_saving

\* the state of a run in progress
\*   t: next step, assets / liabilities: the model's lists,
\*   active_loans, rows, err, exact
RunStart(mdl) ==
    With(InjectLoans(TemplatesAt(mdl, mdl.start_age), mdl.assump.cost_of_debt,
                     [err |-> "", exact |-> mdl.exact, loans |-> <<>>]), LAMBDA inj :
      LET fallback == inj.err = "" /\ inj.loans = <<>> /\ mdl.liabilities[1] > 0
          back == _make_loan(mdl.liabilities[1], mdl.assump.cost_of_debt, None, None)
      IN  [t            |-> 0,
           assets       |-> mdl.assets,
           liabilities  |-> mdl.liabilities,
           active_loans |-> IF fallback THEN Append(inj.loans, back.loan)
                            ELSE inj.loans,
           rows         |-> <<>>,
           err          |-> inj.err,
           exact        |-> inj.exact /\ (fallback => back.exact)])

Years(mdl) == mdl.end_age - mdl.start_age

RunDone(mdl, st) == st.err # "" \/ st.t > Years(mdl)

\* one iteration of the projection loop
RunYear(mdl, st) ==
    LET t    == st.t
        age  == mdl.start_age + t
        inj0 == IF t # 0
                THEN InjectLoans(TemplatesAt(mdl, age), mdl.assump.cost_of_debt,
                                 [err |-> "", exact |-> TRUE,
                                  loans |-> st.active_loans])
                ELSE [err |-> "", exact |-> TRUE, loans |-> st.active_loans]
    IN  With(inj0, LAMBDA inj :
        IF inj.err # "" THEN [st EXCEPT !.err = inj.err]
        ELSE
          With(BeginAssets(st.assets[Len(st.assets)], mdl.asset_events, age),
               LAMBDA a_begin :
          With(DebtService(inj.loans), LAMBDA ds :
          With(SumSeq([k \in 1..Len(mdl.income_streams) |->
                         value_at(mdl.income_streams[k], t)]), LAMBDA salary :
          With(SumSeq([k \in 1..Len(mdl.expense_streams) |->
                         value_at(mdl.expense_streams[k], t)]), LAMBDA expenses :
          LET l_begin  == PrincipalSum(inj.loans)
              a_income == Pct(a_begin, mdl.assump.rate_of_return)
              a_next   == NextAssets(a_begin, a_income, salary, expenses,
                                     ds.liab_expense)
              l_next   == PrincipalSum(ds.loans)
              more     == t < Years(mdl)
          IN  [t            |-> t + 1,
               assets       |-> IF more THEN Append(st.assets, a_next) ELSE st.assets,
               liabilities  |-> IF more THEN Append(st.liabilities, l_next)
                                ELSE st.liabilities,
               active_loans |-> ds.loans,
               rows         |-> Append(st.rows,
                                  Row(age, a_begin, a_income, l_begin,
                                      ds.liab_expense, salary, expenses)),
               err          |-> "",
               exact        |-> st.exact /\ inj.exact /\ ds.exact
                                /\ PctExact(a_begin, mdl.assump.rate_of_return)
                                /\ \A k \in 1..Len(mdl.income_streams) :
                                       value_exact(mdl.income_streams[k], t)
                                /\ \A j \in 1..Len(mdl.expense_streams) :
                                       value_exact(mdl.expense_streams[j], t)])))))

\* the loop body, skipped once the loop has ended
RunStepOrStop(mdl, st) == IF RunDone(mdl, st) THEN st ELSE RunYear(mdl, st)

\* n iterations of the projection loop, by halves
RECURSIVE RunLoop(_, _, _)
RunLoop(mdl, st, n) ==
    IF n <= 0 THEN st
    ELSE IF n = 1 THEN RunStepOrStop(mdl, st)
    ELSE With(n \div 2, LAMBDA k :
         With(RunLoop(mdl, st, k), LAMBDA st2 : RunLoop(mdl, st2, n - k)))

\* run() from the first statement to the last
run(mdl0) ==
    With(mdl0, LAMBDA mdl :
      With(RunStart(mdl), LAMBDA st0 : RunLoop(mdl, st0, Years(mdl) + 1)))

\* ------------------------------------------------------------------------
\*  Search values of DCFGoalSolver
\*  low, high and mid are binary fractions: [i, a, b] stands for
\*  i + a / Limb + b / Limb^2 with 0 <= a, b < Limb, so that forty halvings
\*  of an integer are exact, as they are in the doubles of the program for
\*  the magnitudes met here
\* ------------------------------------------------------------------------
Limb == 1048576

NumOf(n) == [i |-> n, a |-> 0, b |-> 0]

NumNorm(i, a, b) ==
    LET a1 == a + (b \div Limb)
    IN  [i |-> i + (a1 \div Limb), a |-> a1 % Limb, b |-> b % Limb]

NumAdd(x, y) == NumNorm(x.i + y.i, x.a + y.a, x.b + y.b)

NumSub(x, y) == NumNorm(x.i - y.i, x.a - y.a, x.b - y.b)

NumHalf(x) ==
    [i |-> x.i \div 2,
     a |-> ((x.i % 2) * Limb + x.a) \div 2,
     b |-> ((x.a % 2) * Limb + x.b) \div 2]

NumLess(x, y) ==
    \/ x.i < y.i
    \/ x.i = y.i /\ (x.a < y.a \/ (x.a = y.a /\ x.b < y.b))

\* int(round(x)): to the nearest integer, a tie to the even one
Round(x) ==
    LET half == Limb \div 2
    IN  IF x.a < half THEN x.i
        ELSE IF x.a > half \/ x.b > 0 THEN x.i + 1
        ELSE IF x.i % 2 = 0 THEN x.i ELSE x.i + 1

\* max(0, min(120, n))
Clamp(n) == Max2(0, Min2(120, n))

\* ------------------------------------------------------------------------
\*  DCFGoalSolver
\* ------------------------------------------------------------------------
MAX_ITER == 40

\* TOL = 0.01, in hundredths of a currency unit
TOL == 1

WithinTol(ba, target) == Abs(ba - target) * 100 <= TOL

Digits == <<"0", "1", "2", "3", "4", "5", "6", "7", "8", "9">>

DigitVal(c) == (CHOOSE k \in 1..10 : Digits[k] = c) - 1

IsDigit(c) == \E k \in 1..10 : Digits[k] = c

RECURSIVE DigitsVal(_, _)
DigitsVal(s, k) == IF k = 0 THEN 0 ELSE DigitsVal(s, k - 1) * 10 + DigitVal(s[k])

\* _cast_value: float(v) of a decimal string with at most two decimals, in
\* hundredths; any other string is left as it is
_cast_value(v) ==
    LET dots == {k \in 1..Len(v) : v[k] = "."}
        ok   == /\ Len(v) > 0
                /\ \A k \in 1..Len(v) : IsDigit(v[k]) \/ v[k] = "."
                /\ Cardinality(dots) <= 1
                /\ \E k \in 1..Len(v) : IsDigit(v[k])
                /\ \A k \in dots : Len(v) - k <= 2
    IN  IF ~ok THEN [numeric |-> FALSE, str |-> v]
        ELSE IF dots = {}
        THEN [numeric |-> TRUE, hundredths |-> DigitsVal(v, Len(v)) * 100]
        ELSE LET d    == CHOOSE k \in dots : TRUE
                 ip   == SubSeq(v, 1, d - 1)
                 fp   == SubSeq(v, d + 1, Len(v))
                 frac == IF Len(fp) = 0 THEN 0
                         ELSE IF Len(fp) = 1 THEN DigitVal(fp[1]) * 10
                         ELSE DigitsVal(fp, 2)
             IN  [numeric |-> TRUE,
                  hundredths |-> DigitsVal(ip, Len(ip)) * 100 + frac]

\* getattr(goal_ms, attr)
GetAttr(m, attr) ==
    CASE attr = "age_at_occurrence" -> Some(m.age_at_occurrence)
      [] attr = "amount"            -> Some(m.amount)
      [] attr = "rate_of_return"    -> m.rate_of_return
      [] attr = "duration"          -> m.duration
      [] OTHER                      -> None

\* setattr(ms[i], attr, v)
SetAttr(ms, i, attr, v) ==
    CASE attr = "age_at_occurrence" -> [ms EXCEPT ![i].age_at_occurrence = v]
      [] attr = "amount"            -> [ms EXCEPT ![i].amount = v]
      [] attr = "rate_of_return"    -> [ms EXCEPT ![i].rate_of_return = Some(v)]
      [] attr = "duration"          -> [ms EXCEPT ![i].duration = Some(v)]
      [] OTHER                      -> ms
\* _apply_param that finds the milestone and leaves it as it is
_apply_param_Skip(milestones, spv) ==
    IF spv.milestone_id \notin 1..Len(milestones)
    THEN [err |-> "StopIteration", ms |-> milestones]
    ELSE [err |-> "", ms |-> milestones]

\* _apply_param: a rate keeps its hundredths (per cent), any other numeric
\* field takes the whole units; [err, ms]
_apply_param(milestones, spv) ==
    IF spv.milestone_id \notin 1..Len(milestones)
    THEN [err |-> "StopIteration", ms |-> milestones]
    ELSE
      With(_cast_value(spv.value), LAMBDA val :
        [err |-> "",
         ms  |-> IF ~val.numeric THEN milestones
                 ELSE IF spv.parameter = "rate_of_return"
                 THEN SetAttr(milestones, spv.milestone_id, spv.parameter,
                              val.hundredths)
                 ELSE SetAttr(milestones, spv.milestone_id, spv.parameter,
                              val.hundredths \div 100)])

\* _initial_bounds: <<low, high>>
_initial_bounds(start) ==
    IF Abs(start) < 100000 /\ start >= 0 THEN <<0, 120>>
    ELSE
      LET low  == IF start >= 0 THEN 0 ELSE start * 2
          high == IF start > 0 THEN start * 2 + 1 ELSE 1
      IN  IF high <= low THEN <<low, low + 1>> ELSE <<low, high>>

\* _ending_beginning_assets: [err, ba, exact]
_ending_beginning_assets(milestones, anchor_age) ==
    With(from_milestones(milestones), LAMBDA mdl :
      IF mdl.err # "" THEN [err |-> mdl.err, ba |-> 0, exact |-> TRUE]
      ELSE
        With(run(mdl), LAMBDA r :
          IF r.err # "" THEN [err |-> r.err, ba |-> 0, exact |-> TRUE]
          ELSE IF r.rows = <<>> THEN [err |-> "AttributeError", ba |-> 0, exact |-> TRUE]
          ELSE
            LET hit == {k \in 1..Len(r.rows) :
                          ~IsNone(anchor_age) /\ r.rows[k].Age = Val(anchor_age)}
            IN  [err |-> "",
                 ba  |-> IF hit # {}
                         THEN r.rows[CHOOSE k \in hit : \A j \in hit : k <= j].BeginningAssets
                         ELSE r.rows[Len(r.rows)].BeginningAssets,
                 exact |-> r.exact]))

\* the value _ba_for_value sets on the goal field
ProbeAge(val, is_age) == IF is_age THEN Clamp(Round(val)) ELSE Round(val)

\* _ba_for_value: [err, ba, exact]; the goal field is restored afterwards
_ba_for_value(milestones, goal_ms, attr, val, is_age, anchor_age) ==
    _ending_beginning_assets(
        SetAttr(milestones, goal_ms, attr, ProbeAge(val, is_age)), anchor_age)

\* min(ba_low, ba_high) <= target_ba <= max(ba_low, ba_high)
Bracketed(ba_low, ba_high, target_ba) ==
    Min2(ba_low, ba_high) <= target_ba /\ target_ba <= Max2(ba_low, ba_high)

\* the expansion loop's condition with twelve rounds allowed
KeepExpanding_Twelve(ba_low, ba_high, target_ba, expand_iter) ==
    ~Bracketed(ba_low, ba_high, target_ba) /\ expand_iter < 12

\* the expansion loop's condition
KeepExpanding(ba_low, ba_high, target_ba, expand_iter) ==
    ~Bracketed(ba_low, ba_high, target_ba) /\ expand_iter < 10

\* the scan keeps a later age of equal distance
ScanBetter_OrEqual(diff, best_diff) == IsNone(best_diff) \/ diff <= Val(best_diff)

\* the scan's "diff < best_diff"; best_diff None stands for float("inf")
ScanBetter(diff, best_diff) == IsNone(best_diff) \/ diff < Val(best_diff)

Sign(x) == IF x < 0 THEN -1 ELSE IF x > 0 THEN 1 ELSE 0

\* (ba_low - target) * (ba_mid - target) < 0
OppositeSides(ba_low, ba_mid, target_ba) ==
    Sign(ba_low - target_ba) * Sign(ba_mid - target_ba) < 0

\* ------------------------------------------------------------------------
\*  Milestone records (the fields the engine reads)
\* ------------------------------------------------------------------------
Milestone(name, milestone_type, age_at_occurrence, disbursement_type, amount, duration, rate_of_return) ==
    [name |-> name, milestone_type |-> milestone_type,
     age_at_occurrence |-> age_at_occurrence,
     disbursement_type |-> disbursement_type, amount |-> amount,
     occurrence |-> "Yearly", duration |-> duration,
     rate_of_return |-> rate_of_return, payment |-> None,
     start_after_milestone |-> <<>>, duration_end_at_milestone |-> <<>>]

\* ------------------------------------------------------------------------
\*  Inputs of the projection
\* ------------------------------------------------------------------------
\* first age of the scenarios and the number of later ages milestones
\* may be dated at
BaseAge == 30

MaxAgeSpan == 2

N_Savings == <<"S","a","v","i","n","g","s">>

N_Car == <<"C","a","r">>

N_Debt == <<"D","e","b","t">>

N_Job == <<"J","o","b">>

N_Rent == <<"R","e","n","t">>

N_Retirement == <<"R","e","t","i","r","e","m","e","n","t">>

N_Inheritance == <<"I","n","h","e","r","i","t","a","n","c","e">>

N_Current_Salary ==
    <<"C","u","r","r","e","n","t"," ","S","a","l","a","r","y">>

N_Current_Expenses ==
    <<"C","u","r","r","e","n","t"," ","E","x","p","e","n","s","e","s">>

N_Current_Debt == <<"C","u","r","r","e","n","t"," ","D","e","b","t">>

MaxDuration == 4

OptPart(S) == {<<>>} \cup {<<m>> : m \in S}

SavingsPart ==
    {Milestone(N_Savings, "Asset", BaseAge, "Perpetuity", 100000, None, r) :
        r \in {None, Some(0), Some(8)}}

DebtPart ==
    {Milestone(nm, "Liability", a, "Fixed Duration", 20000, Some(n), Some(0)) :
        nm \in {N_Debt, N_Current_Debt}, a \in {BaseAge, BaseAge + 1},
        n \in {2, MaxDuration}}

FlowPart ==
    {Milestone(IF ty = "Income" THEN N_Job ELSE N_Rent, ty, a, "Fixed Duration",
               10000, Some(2), r) :
        ty \in {"Income", "Expense"}, a \in {BaseAge, BaseAge + 1},
        r \in {None, Some(0)}}

CarPart ==
    {Milestone(N_Car, "Asset", a, "Perpetuity", -20000, None, None) :
        a \in (BaseAge + 1)..(BaseAge + MaxAgeSpan)}

\* the death marker, dated directly or through a start-after rule that leaves
\* the stored age behind
InheritancePart ==
    {Milestone(N_Inheritance, "Expense", BaseAge + MaxAgeSpan + 1,
               "Fixed Duration", 0, Some(1), Some(0)),
     [Milestone(N_Inheritance, "Expense", BaseAge - 5, "Fixed Duration", 0,
                Some(1), Some(0)) EXCEPT !.start_after_milestone = N_Car]}

MilestoneCandidates ==
    {s \o d \o f \o c \o i :
        s \in OptPart(SavingsPart), d \in OptPart(DebtPart),
        f \in OptPart(FlowPart), c \in OptPart(CarPart),
        i \in OptPart(InheritancePart)}

\* inputs on which the integer arithmetic of the model is exact
ExactInput(M) ==
    \E mdl \in {from_milestones(M)} :
        mdl.err # "" \/ \E r \in {run(mdl)} : r.err # "" \/ r.exact

MilestoneInputs == {M \in MilestoneCandidates : ExactInput(M)}

\* direct constructions DCFModel(start_age=..., ...), as the unit tests do
Assumptions(inflation, rate_of_return, cost_of_debt) ==
    [inflation |-> inflation, rate_of_return |-> rate_of_return,
     cost_of_debt |-> cost_of_debt]

DirectInputs ==
    {DCFModelInit(BaseAge, BaseAge + 3, Assumptions(0, 0, 0), 50000, 0, 0, 0,
                  <<>>, <<>>, ev, <<>>) :
        ev \in {<<>>} \cup {<< <<a, -20000>> >> : a \in BaseAge..(BaseAge + 3)}}
    \cup {DCFModelInit(BaseAge, BaseAge + 1, Assumptions(3, 5, 4), 10000, 5000,
                       100000, 80000, <<>>, <<>>, <<>>, <<>>)}

\* ------------------------------------------------------------------------
\*  Inputs of the goal solver
\* ------------------------------------------------------------------------
S_100000 == <<"1","0","0","0","0","0">>

S_110000 == <<"1","1","0","0","0","0">>

Goal(milestone_id, parameter) ==
    [milestone_id |-> milestone_id, parameter |-> parameter]

ScenarioParameterValue(milestone_id, parameter, value) ==
    [milestone_id |-> milestone_id, parameter |-> parameter, value |-> value]

SolveInput(via, ms, goal, spv, target, anchor_age) ==
    [kind |-> "solve", via |-> via, ms |-> ms, goal |-> goal, spv |-> spv,
     target |-> target, anchor_age |-> anchor_age]

\* savings, a salary that lasts until Retirement, and the death marker ten
\* years on; the goal is the age of Retirement (milestone 3)
RetirementMs(a0) ==
    <<Milestone(N_Savings, "Asset", BaseAge, "Perpetuity", 100000, None, Some(0)),
      [Milestone(N_Job, "Income", BaseAge + 1, "Fixed Duration", 10000, None,
                 Some(0)) EXCEPT !.duration_end_at_milestone = N_Retirement],
      Milestone(N_Retirement, "Asset", a0, "Perpetuity", 0, None, Some(0)),
      Milestone(N_Inheritance, "Expense", BaseAge + 10, "Fixed Duration", 0,
                Some(1), Some(0))>>

RetirementInputs ==
    {SolveInput("direct", RetirementMs(a0), Goal(3, "age_at_occurrence"),
                ScenarioParameterValue(1, "amount", v), t, Some(BaseAge + 10)) :
        a0 \in {BaseAge + 6, -5}, v \in {S_100000, S_110000},
        t \in {100000, 140000, 145000, 250000}}

\* savings and a four-year loan whose age is the goal (milestone 2)
LoanMs ==
    <<Milestone(N_Savings, "Asset", BaseAge, "Perpetuity", 100000, None, Some(0)),
      Milestone(N_Debt, "Liability", BaseAge + 2, "Fixed Duration", 24000,
                Some(4), Some(0)),
      Milestone(N_Inheritance, "Expense", BaseAge + 10, "Fixed Duration", 0,
                Some(1), Some(0))>>

LoanInputs ==
    {SolveInput("direct", LoanMs, Goal(2, "age_at_occurrence"),
                ScenarioParameterValue(1, "amount", S_100000), t,
                Some(BaseAge + 10)) : t \in {80000, 40000}}

\* savings and a purchase whose age is the goal (milestone 2), no death
\* marker; the anchor is absent or an age the table may not reach
PurchaseMs ==
    <<Milestone(N_Savings, "Asset", BaseAge, "Perpetuity", 100000, None, Some(0)),
      Milestone(N_Car, "Asset", BaseAge + 2, "Perpetuity", -20000, None, Some(0))>>

PurchaseInputs ==
    {SolveInput("direct", PurchaseMs, Goal(2, "age_at_occurrence"),
                ScenarioParameterValue(1, "amount", S_100000), t, an) :
        t \in {80000, 90000}, an \in {None, Some(BaseAge + 5)}}

\* the fixture sample_data of test_dcf_solver.py; rates in per cent
FixtureMs ==
    <<[Milestone(N_Current_Salary, "Income", 30, "Fixed Duration", 110000, None,
                 Some(4)) EXCEPT !.duration_end_at_milestone = N_Retirement],
      [Milestone(N_Current_Expenses, "Expense", 30, "Fixed Duration", 60000, None,
                 Some(2)) EXCEPT !.duration_end_at_milestone = N_Retirement],
      Milestone(N_Current_Debt, "Liability", 30, "Fixed Duration", 20000, Some(4),
                Some(0)),
      Milestone(N_Inheritance, "Expense", 40, "Fixed Duration", 0, Some(1), Some(0)),
      [Milestone(N_Retirement, "Expense", 36, "Fixed Duration", 55000, None,
                 Some(2)) EXCEPT !.duration_end_at_milestone = N_Inheritance],
      Milestone(N_Savings, "Asset", 30, "Perpetuity", 100000, None, Some(10))>>

\* the parametrisation of the fixture: rate string, documented solved age
FixtureParams ==
    {<< <<"0",".","0","2">>, 39>>, << <<"0",".","0","5">>, 38>>,
     << <<"0",".","0","8">>, 37>>, << <<"0",".","1","2">>, 36>>,
     << <<"0",".","1","5">>, 35>>, << <<"0",".","2">>, 34>>}

\* the fixture as the test drives it, and with a solver constructed on a
\* given target and the anchor age 40
FixtureInputs ==
    {SolveInput(via, FixtureMs, Goal(5, "age_at_occurrence"),
                ScenarioParameterValue(6, "rate_of_return", p[1]), 500000,
                Some(40)) :
        via \in {"test", "direct"}, p \in FixtureParams}

SolveInputs == RetirementInputs \cup LoanInputs \cup PurchaseInputs \cup FixtureInputs

\* ------------------------------------------------------------------------
\*  The projection as a state machine
\* ------------------------------------------------------------------------
VARIABLES
    input,   \* [kind, ms] or [kind, params]: what the caller supplies
    pc,      \* "new", "built", "running", "done", "raised"
    model,   \* the DCFModel object
    st,      \* locals of run() while it executes
    table,   \* self._table
    solver,  \* the DCFGoalSolver object
    sl,      \* locals of solve() while it executes
    prev,    \* the table an earlier call of run() on the same model left
    records, \* the milestone records an entry point has loaded, per combination
    job,     \* locals of the entry point that is executing
    out      \* the rows and values the entry point has written or returned

vars == <<input, pc, model, st, table, solver, sl, prev, records, job, out>>

NoModel == [err |-> "none"]

NoRun == [t |-> 0, assets |-> <<>>, liabilities |-> <<>>, active_loans |-> <<>>,
          rows |-> <<>>, err |-> "", exact |-> TRUE]

NoSolver == [base_ms |-> <<>>, target_ba |-> 0, anchor_age |-> None,
             progress |-> <<>>]

\* calls counts the projections made for each phase of solve, goal_ages
\* collects the goal ages they were made with
NoSolve == [working_ms |-> <<>>, low |-> NumOf(0), high |-> NumOf(0),
            ba_low |-> 0, ba_high |-> 0, expand_iter |-> 0, solved_val |-> 0,
            best_age |-> None, best_diff |-> None, age |-> 0, iter |-> 0,
            calls |-> [init |-> 0, expand |-> 0, bisect |-> 0, scan |-> 0],
            goal_ages |-> {}, exact |-> TRUE, err |-> ""]

\* no entry point is executing, nothing is written
NoJob == [name |-> "none"]

NoOut == [name |-> "none"]

Init ==
    /\ input \in {[kind |-> "milestones", ms |-> M] : M \in MilestoneInputs}
           \cup {[kind |-> "direct", params |-> d] : d \in DirectInputs}
    /\ pc = "new"
    /\ model = NoModel
    /\ st = NoRun
    /\ table = None
    /\ solver = NoSolver
    /\ sl = NoSolve
    /\ prev = None
    /\ records = <<>>
    /\ job = NoJob
    /\ out = NoOut

\* DCFModel.from_milestones(milestones)
FromMilestones ==
    /\ pc = "new"
    /\ input.kind = "milestones"
    /\ model' = from_milestones(input.ms)
    /\ pc' = IF model'.err # "" THEN "raised" ELSE "built"
    /\ UNCHANGED <<input, st, table, solver, sl, prev, records, job, out>>

\* DCFModel(start_age=..., end_age=..., ...)
Construct ==
    /\ pc = "new"
    /\ input.kind = "direct"
    /\ model' = input.params
    /\ pc' = "built"
    /\ UNCHANGED <<input, st, table, solver, sl, prev, records, job, out>>

\* run(): loan schedules of the start age
RunBegin ==
    /\ pc = "built"
    /\ st' = RunStart(model)
    /\ pc' = IF st'.err # "" THEN "raised" ELSE "running"
    /\ UNCHANGED <<input, model, table, solver, sl, prev, records, job, out>>

\* run(): one iteration of the projection loop
RunStep ==
    /\ pc = "running"
    /\ ~RunDone(model, st)
    /\ st' = RunYear(model, st)
    /\ pc' = IF st'.err # "" THEN "raised" ELSE "running"
    /\ UNCHANGED <<input, model, table, solver, sl, prev, records, job, out>>

\* run(): self._table = DataFrame(rows); return self
RunFinish ==
    /\ pc = "running"
    /\ RunDone(model, st)
    /\ table' = Some(st.rows)
    /\ model' = [model EXCEPT !.assets = st.assets, !.liabilities = st.liabilities]
    /\ pc' = "done"
    /\ UNCHANGED <<input, st, solver, sl, prev, records, job, out>>

Next == FromMilestones \/ Construct \/ RunBegin \/ RunStep \/ RunFinish

Spec == Init /\ [][Next]_vars

\* ------------------------------------------------------------------------
\*  DCFGoalSolver.solve as a state machine
\* ------------------------------------------------------------------------
is_age_attr == input.goal.parameter = "age_at_occurrence"

\* the probes at low and at high, in this order:
\* [err, ba_low, ba_high, n, ages, exact], n the number of probes made
ProbeBounds(ms, low, high) ==
    With(_ba_for_value(ms, input.goal.milestone_id, input.goal.parameter, low,
                       is_age_attr, solver.anchor_age), LAMBDA pl :
      IF pl.err # ""
      THEN [err |-> pl.err, ba_low |-> 0, ba_high |-> 0, n |-> 1,
            ages |-> {ProbeAge(low, is_age_attr)}, exact |-> TRUE]
      ELSE
        With(_ba_for_value(ms, input.goal.milestone_id, input.goal.parameter, high,
                           is_age_attr, solver.anchor_age), LAMBDA ph :
          [err |-> ph.err, ba_low |-> pl.ba, ba_high |-> ph.ba, n |-> 2,
           ages |-> {ProbeAge(low, is_age_attr), ProbeAge(high, is_age_attr)},
           exact |-> pl.exact /\ ph.exact]))

\* where solve goes once the bounds are probed: another expansion, the
\* integer scan, or the bisection
AfterProbes(ba_low, ba_high, expand_iter) ==
    IF KeepExpanding(ba_low, ba_high, solver.target_ba, expand_iter) THEN "expand"
    ELSE IF is_age_attr /\ ~Bracketed(ba_low, ba_high, solver.target_ba) THEN "scan"
    ELSE "bisect"

SolveInit ==
    /\ input \in SolveInputs
    /\ pc = "s_new"
    /\ model = NoModel
    /\ st = NoRun
    /\ table = None
    /\ solver = NoSolver
    /\ sl = NoSolve
    /\ prev = None
    /\ records = <<>>
    /\ job = NoJob
    /\ out = NoOut

\* DCFGoalSolver(milestones, target_ba, anchor_age)
NewSolver ==
    /\ pc = "s_new"
    /\ input.via = "direct"
    /\ solver' = [base_ms |-> input.ms, target_ba |-> input.target,
                  anchor_age |-> input.anchor_age, progress |-> <<>>]
    /\ pc' = "ready"
    /\ UNCHANGED <<input, model, st, table, sl, prev, records, job, out>>

\* test_goal_solver_converges up to its constructor call, which passes no
\* anchor_age
TestBaseline ==
    /\ pc = "s_new"
    /\ input.via = "test"
    /\ \E b \in {_ending_beginning_assets(input.ms, None)} :
          sl' = [sl EXCEPT !.err = IF b.err # "" THEN b.err ELSE "TypeError"]
    /\ pc' = "raised"
    /\ UNCHANGED <<input, model, st, table, solver, prev, records, job, out>>

\* solve: the override, the initial bounds and their two probes
SolveBegin ==
    /\ pc = "ready"
    /\ \E ap \in {_apply_param(solver.base_ms, input.spv)} :
        IF ap.err # "" \/ input.goal.milestone_id \notin 1..Len(ap.ms)
        THEN /\ sl' = [sl EXCEPT !.err = "StopIteration", !.working_ms = ap.ms]
             /\ pc' = "raised"
             /\ UNCHANGED solver
        ELSE
          LET g           == GetAttr(ap.ms[input.goal.milestone_id], input.goal.parameter)
              initial_val == IF IsNone(g) \/ Val(g) = 0 THEN 0 ELSE Val(g)
              bounds      == _initial_bounds(initial_val)
              low         == NumOf(bounds[1])
              high        == NumOf(bounds[2])
          IN  \E pr \in {ProbeBounds(ap.ms, low, high)} :
                /\ sl' = [sl EXCEPT !.working_ms = ap.ms,
                                    !.low = low, !.high = high,
                                    !.ba_low = pr.ba_low, !.ba_high = pr.ba_high,
                                    !.solved_val = initial_val,
                                    !.calls.init = pr.n,
                                    !.goal_ages = pr.ages,
                                    !.exact = pr.exact,
                                    !.err = pr.err]
                /\ solver' = IF pr.err # "" THEN solver
                             ELSE [solver EXCEPT !.progress =
                                     <<<<low, pr.ba_low>>, <<high, pr.ba_high>>>>]
                /\ pc' = IF pr.err # "" THEN "raised"
                         ELSE AfterProbes(pr.ba_low, pr.ba_high, 0)
    /\ UNCHANGED <<input, model, st, table, prev, records, job, out>>

\* solve: one round of the expansion loop
Expand ==
    /\ pc = "expand"
    /\ LET span == IF NumLess(sl.low, sl.high) THEN NumSub(sl.high, sl.low)
                   ELSE NumSub(sl.low, sl.high)
           low  == NumSub(sl.low, span)
           high == NumAdd(sl.high, span)
       IN  \E pr \in {ProbeBounds(sl.working_ms, low, high)} :
             /\ sl' = [sl EXCEPT !.low = low, !.high = high,
                                 !.ba_low = IF pr.err = "" THEN pr.ba_low ELSE @,
                                 !.ba_high = IF pr.err = "" THEN pr.ba_high ELSE @,
                                 !.expand_iter = IF pr.err = "" THEN @ + 1 ELSE @,
                                 !.calls.expand = @ + pr.n,
                                 !.goal_ages = @ \cup pr.ages,
                                 !.exact = @ /\ pr.exact,
                                 !.err = pr.err]
             /\ solver' = IF pr.err # "" THEN solver
                          ELSE [solver EXCEPT !.progress =
                                  @ \o <<<<low, pr.ba_low>>, <<high, pr.ba_high>>>>]
             /\ pc' = IF pr.err # "" THEN "raised"
                      ELSE AfterProbes(pr.ba_low, pr.ba_high, sl.expand_iter + 1)
    /\ UNCHANGED <<input, model, st, table, prev, records, job, out>>

\* solve: one age of the integer scan; the last one writes the best age to
\* the goal milestone and returns
ScanStep ==
    /\ pc = "scan"
    /\ \E p \in {_ba_for_value(sl.working_ms, input.goal.milestone_id,
                               input.goal.parameter, NumOf(sl.age), TRUE,
                               solver.anchor_age)} :
        IF p.err # ""
        THEN /\ sl' = [sl EXCEPT !.err = p.err, !.calls.scan = @ + 1,
                                 !.goal_ages = @ \cup {ProbeAge(NumOf(sl.age), TRUE)}]
             /\ pc' = "raised"
             /\ UNCHANGED solver
        ELSE
          LET diff      == Abs(p.ba - solver.target_ba)
              better    == ScanBetter(diff, sl.best_diff)
              best_age  == IF better THEN Some(sl.age) ELSE sl.best_age
              best_diff == IF better THEN Some(diff) ELSE sl.best_diff
              last      == sl.age = 120
              solved    == IF IsNone(best_age) THEN sl.solved_val ELSE Val(best_age)
          IN  /\ sl' = [sl EXCEPT !.age = @ + 1,
                                  !.best_age = best_age, !.best_diff = best_diff,
                                  !.calls.scan = @ + 1,
                                  !.goal_ages = @ \cup {ProbeAge(NumOf(sl.age), TRUE)},
                                  !.exact = @ /\ p.exact,
                                  !.solved_val = IF last THEN solved ELSE @,
                                  !.working_ms =
                                      IF last
                                      THEN SetAttr(@, input.goal.milestone_id,
                                                   input.goal.parameter, solved)
                                      ELSE @]
              /\ solver' = [solver EXCEPT !.progress =
                              Append(@, <<NumOf(sl.age), p.ba>>)]
              /\ pc' = IF last THEN "returned" ELSE "scan"
    /\ UNCHANGED <<input, model, st, table, prev, records, job, out>>

\* solve: one iteration of the bisection loop; on convergence or after the
\* MAX_ITER-th iteration the solved value is written to the goal milestone
\* and returned (the goal is an age: solved_val = int(round(mid)))
BisectStep ==
    /\ pc = "bisect"
    /\ LET mid == NumHalf(NumAdd(sl.low, sl.high))
       IN  \E p \in {_ba_for_value(sl.working_ms, input.goal.milestone_id,
                                   input.goal.parameter, mid, is_age_attr,
                                   solver.anchor_age)} :
        IF p.err # ""
        THEN /\ sl' = [sl EXCEPT !.err = p.err, !.calls.bisect = @ + 1,
                                 !.goal_ages = @ \cup {ProbeAge(mid, is_age_attr)}]
             /\ pc' = "raised"
             /\ UNCHANGED solver
        ELSE
          LET converged == WithinTol(p.ba, solver.target_ba)
              opposite  == OppositeSides(sl.ba_low, p.ba, solver.target_ba)
              last      == converged \/ sl.iter + 1 = MAX_ITER
              solved    == Round(mid)
          IN  /\ sl' = [sl EXCEPT !.iter = @ + 1,
                                  !.high = IF ~converged /\ opposite THEN mid ELSE @,
                                  !.ba_high = IF ~converged /\ opposite THEN p.ba ELSE @,
                                  !.low = IF ~converged /\ ~opposite THEN mid ELSE @,
                                  !.ba_low = IF ~converged /\ ~opposite THEN p.ba ELSE @,
                                  !.calls.bisect = @ + 1,
                                  !.goal_ages = @ \cup {ProbeAge(mid, is_age_attr)},
                                  !.exact = @ /\ p.exact
                                            /\ (sl.low.b + sl.high.b) % 2 = 0,
                                  !.solved_val = solved,
                                  !.working_ms =
                                      IF last
                                      THEN SetAttr(@, input.goal.milestone_id,
                                                   input.goal.parameter, solved)
                                      ELSE @]
              /\ solver' = [solver EXCEPT !.progress = Append(@, <<mid, p.ba>>)]
              /\ pc' = IF last THEN "returned" ELSE "bisect"
    /\ UNCHANGED <<input, model, st, table, prev, records, job, out>>

SolveNext ==
    NewSolver \/ TestBaseline \/ SolveBegin \/ Expand \/ ScanStep \/ BisectStep

SolveSpec == SolveInit /\ [][SolveNext]_vars

\* solve runs on: no step of it waits for anything
SolveLive == SolveSpec /\ WF_vars(SolveNext)

\* ------------------------------------------------------------------------
\*  Properties of the projection table
\* ------------------------------------------------------------------------
\* E(x): the asset-event amount scheduled at age x, 0 when none
E(x) == IF x \in DOMAIN model.asset_events THEN model.asset_events[x] ELSE 0

HasModel == pc \in {"built", "running", "done"}

\* C1: the first row begins with initial_assets + E(start_age); consecutive
\* rows are one age apart and beginning_assets(a+1) = beginning_assets(a)
\* + assets_income(a) + salary(a) - expenses(a) - liabilities_expense(a)
\* + E(a+1), with assets_income(a) = beginning_assets(a) x asset return rate;
\* with zero flows and rates and one event of -X at age A the balance is the
\* initial one before A and exactly X lower from A on.
C1_BalanceRecurrence ==
    pc \in {"running", "done"} =>
      LET rows == st.rows
      IN  /\ Len(rows) >= 1 =>
                /\ rows[1].Age = model.start_age
                /\ rows[1].BeginningAssets = model.assets[1] + E(model.start_age)
          /\ \A k \in 1..Len(rows) :
                rows[k].AssetsIncome =
                    Pct(rows[k].BeginningAssets, model.assump.rate_of_return)
          /\ \A k \in 1..(Len(rows) - 1) :
                /\ rows[k + 1].Age = rows[k].Age + 1
                /\ rows[k + 1].BeginningAssets =
                       rows[k].BeginningAssets + rows[k].AssetsIncome
                       + rows[k].Salary - rows[k].Expenses
                       - rows[k].LiabilitiesExpense + E(rows[k + 1].Age)
          /\ (/\ input.kind = "direct"
              /\ model.assump = Assumptions(0, 0, 0)
              /\ model.income_streams = <<>> /\ model.expense_streams = <<>>
              /\ model.liabilities[1] = 0)
             => \A k \in 1..Len(rows) :
                   rows[k].BeginningAssets =
                       model.assets[1]
                       + SumSeq([j \in 1..k |-> E(rows[j].Age)])

\* C1 witness: a finished table in which a one-off event of -20000 lands
\* after the first row and years with income on assets exist
C1_Witness_Event ==
    /\ pc = "done"
    /\ Len(st.rows) = 4
    /\ E(BaseAge + 2) = -20000
    /\ st.rows[2].BeginningAssets = 50000
    /\ st.rows[3].BeginningAssets = 30000
    /\ st.rows[4].BeginningAssets = 30000

\* C2 (as claimed): a finished table has one row per age start_age..end_age
\* and is never empty
C2_RowPerAge ==
    pc = "done" =>
      /\ Len(st.rows) = model.end_age - model.start_age + 1
      /\ Len(st.rows) >= 1
      /\ \A k \in 1..Len(st.rows) : st.rows[k].Age = model.start_age + k - 1

\* the Liability milestones of the input that carry rate 0, a fixed duration
\* and no payment
PlainLoans ==
    IF input.kind # "milestones" THEN {}
    ELSE {i \in 1..Len(input.ms) :
            /\ input.ms[i].milestone_type = "Liability"
            /\ input.ms[i].rate_of_return = Some(0)
            /\ input.ms[i].disbursement_type = "Fixed Duration"
            /\ ~IsNone(input.ms[i].duration)
            /\ IsNone(input.ms[i].payment)}

NoInheritance ==
    /\ input.kind = "milestones"
    /\ \A i \in 1..Len(input.ms) : _norm_name(input.ms[i].name) # K_inheritance

\* C3 (as claimed): a Liability of principal P, rate 0, fixed duration n and
\* no payment costs P/n in each of the n years from its age on and owes
\* nothing afterwards, wherever it is dated (collections without a death
\* marker, one liability)
C3_ImpliedPayment ==
    (pc = "done" /\ NoInheritance) =>
      \A i \in PlainLoans :
        LET m == input.ms[i]
            n == Val(m.duration)
        IN  \A k \in 1..Len(st.rows) :
              LET r == st.rows[k]
              IN  /\ (r.Age >= m.age_at_occurrence /\ r.Age < m.age_at_occurrence + n)
                       => r.LiabilitiesExpense = m.amount \div n
                  /\ r.Age >= m.age_at_occurrence + n
                       => r.BeginningLiabilities = 0

\* the horizon of the input collection
InputHorizon ==
    IF input.kind = "milestones" THEN Horizon(input.ms) ELSE [err |-> "none"]

\* the Income / Expense milestones dated at the projection start
OpeningFlows(h) ==
    IF h.err # "" THEN {}
    ELSE {i \in 1..Len(input.ms) :
            /\ input.ms[i].milestone_type \in {"Income", "Expense"}
            /\ h.age[i] = h.start_age}

FlowAt(h, i, t) ==
    LET m == input.ms[i]
        d == h.dur[i]
        g == IF IsNone(m.rate_of_return) THEN InflationDefault
             ELSE Val(m.rate_of_return)
    IN  IF ~IsNone(d) /\ t >= Val(d) THEN 0 ELSE Grow(m.amount, g, t)

\* C4 (as claimed): with Income / Expense milestones at the start age
\* from_milestones succeeds and Salary (Expenses) at step t is the sum of
\* their amount x (1+g)^t inside their effective duration
C4_OpeningFlows ==
    \A h \in {InputHorizon} : \A F \in {OpeningFlows(h)} :
      (pc # "new" /\ F # {}) =>
        /\ model.err = ""
        /\ \A k \in 1..Len(st.rows) :
              /\ st.rows[k].Salary =
                   SumSeq([i \in 1..Len(input.ms) |->
                      IF i \in F /\ input.ms[i].milestone_type = "Income"
                      THEN FlowAt(h, i, k - 1) ELSE 0])
              /\ st.rows[k].Expenses =
                   SumSeq([i \in 1..Len(input.ms) |->
                      IF i \in F /\ input.ms[i].milestone_type = "Expense"
                      THEN FlowAt(h, i, k - 1) ELSE 0])

\* the opening-state Asset milestones that specify a rate
OpeningRatedAssets(h) ==
    {i \in 1..Len(input.ms) :
        /\ input.ms[i].milestone_type = "Asset"
        /\ h.age[i] = h.start_age
        /\ ~IsNone(input.ms[i].rate_of_return)}

\* C5 (as claimed): without macro assumptions the asset return is the
\* amount-weighted average rate of the opening Asset milestones that give
\* one, and 0.08 when none does; the single Savings milestone of 100000 at
\* 0.08 projects one row with beginning_assets 100000 and assets_income 8000
C5_AssetReturn ==
    (HasModel /\ input.kind = "milestones") =>
      \A S \in {OpeningRatedAssets(InputHorizon)} :
      LET total == SumSeq([i \in 1..Len(input.ms) |->
                      IF i \in S THEN input.ms[i].amount ELSE 0])
          wsum  == SumSeq([i \in 1..Len(input.ms) |->
                      IF i \in S
                      THEN input.ms[i].amount * Val(input.ms[i].rate_of_return)
                      ELSE 0])
      IN  /\ S = {} => model.assump.rate_of_return = LegacyAssetReturn
          /\ (S # {} /\ total # 0) =>
                model.assump.rate_of_return * total = wsum
          /\ (pc = "done"
              /\ input.ms = <<Milestone(N_Savings, "Asset", BaseAge, "Perpetuity",
                                        100000, None, Some(8))>>)
             => st.rows = <<Row(BaseAge, 100000, 8000, 0, 0, 0, 0)>>

\* ------------------------------------------------------------------------
\*  Properties of the goal solver
\* ------------------------------------------------------------------------
SolveDone == pc \in {"returned", "raised"}

\* the balance the projection gives with the goal age a: [err, ba, exact]
BalanceAt(a) ==
    _ba_for_value(sl.working_ms, input.goal.milestone_id, input.goal.parameter,
                  NumOf(a), TRUE, solver.anchor_age)

\* the goal-to-balance mapping over the ages 0..120
BalanceMap == [a \in 0..120 |-> BalanceAt(a)]

Monotonic(G) ==
    /\ \A a \in 0..120 : G[a].err = ""
    /\ \/ \A a \in 0..119 : G[a].ba <= G[a + 1].ba
       \/ \A a \in 0..119 : G[a].ba >= G[a + 1].ba

\* the bounds' balances after the last expansion, from self.progress
LastLow == solver.progress[2 * sl.expand_iter + 1][2]

LastHigh == solver.progress[2 * sl.expand_iter + 2][2]

\* C6 (as claimed): for an age goal with a monotonic mapping and a target
\* between the balances at 0 and 120, the balance of the returned milestone
\* set is within 0.01 of the target, or, after the integer scan, the returned
\* age is the one in 0..120 that minimises |balance - target|
C6_Convergence ==
    (pc = "returned" /\ is_age_attr) =>
      \A G \in {BalanceMap} :
        (Monotonic(G) /\ Bracketed(G[0].ba, G[120].ba, solver.target_ba)) =>
          IF sl.calls.scan = 0
          THEN \A e \in {_ending_beginning_assets(sl.working_ms, solver.anchor_age)} :
                  e.err = "" /\ WithinTol(e.ba, solver.target_ba)
          ELSE /\ sl.solved_val \in 0..120
               /\ \A a \in 0..120 :
                     Abs(G[sl.solved_val].ba - solver.target_ba)
                        <= Abs(G[a].ba - solver.target_ba)

\* C7 (as claimed): the retirement fixture is solved for each of its six
\* rates, and the solved age is within one year of the documented one
C7_RetirementAges ==
    (input.kind = "solve" /\ input.ms = FixtureMs) =>
      /\ pc # "raised"
      /\ pc = "returned" =>
            \E p \in FixtureParams :
                p[1] = input.spv.value /\ Abs(sl.solved_val - p[2]) <= 1

\* C8: when the target is still outside the balances at the two bounds once
\* the expansion has ended, an age goal is never bisected: the ages 0..120
\* are each evaluated once, in order, the age returned is the smallest one
\* whose balance is closest to the target, and it is the goal milestone's age
\* in the returned milestone set
C8_ScanFallback ==
    /\ (pc = "bisect" /\ is_age_attr) =>
          Bracketed(LastLow, LastHigh, solver.target_ba)
    /\ sl.calls.scan > 0 => sl.calls.bisect = 0
    /\ (pc = "returned" /\ is_age_attr
        /\ ~Bracketed(LastLow, LastHigh, solver.target_ba)) =>
          \A G \in {BalanceMap} :
            LET p == solver.progress
                k == 2 * sl.expand_iter + 2
                t == solver.target_ba
                v == sl.solved_val
            IN  /\ sl.calls.bisect = 0
                /\ Len(p) = k + 121
                /\ \A a \in 0..120 :
                      G[a].err = "" /\ p[k + 1 + a] = <<NumOf(a), G[a].ba>>
                /\ v \in 0..120
                /\ \A a \in 0..120 : Abs(G[v].ba - t) <= Abs(G[a].ba - t)
                /\ \A a \in 0..(v - 1) : Abs(G[v].ba - t) < Abs(G[a].ba - t)
                /\ sl.working_ms =
                      SetAttr(_apply_param(solver.base_ms, input.spv).ms,
                              input.goal.milestone_id, input.goal.parameter, v)

\* C8 witness: a scan has returned the first of several ages that are
\* equally close to the target
C8_Witness_Tie ==
    /\ pc = "returned"
    /\ sl.calls.scan = 121
    /\ sl.solved_val > 0
    /\ \E k \in 1..Len(solver.progress) :
          /\ solver.progress[k][1] = NumOf(sl.solved_val + 1)
          /\ solver.progress[k - 1][1] = NumOf(sl.solved_val)
          /\ solver.progress[k][2] = solver.progress[k - 1][2]

\* the numbers of projections a call of solve has made so far
C9_Counts ==
    /\ sl.calls.init <= 2
    /\ sl.expand_iter <= 10
    /\ sl.calls.expand <= 2 * sl.expand_iter + 2
    /\ pc # "raised" => sl.calls.expand = 2 * sl.expand_iter
    /\ \A j \in 0..(sl.expand_iter - 1) :
          ~Bracketed(solver.progress[2 * j + 1][2], solver.progress[2 * j + 2][2],
                     solver.target_ba)
    /\ sl.calls.bisect <= 40
    /\ sl.calls.scan <= 121
    /\ sl.calls.scan = 0 \/ sl.calls.bisect = 0
    /\ pc = "returned" =>
          /\ sl.calls.init = 2
          /\ sl.calls.scan = 121 \/ (sl.calls.scan = 0 /\ sl.calls.bisect >= 1)
          /\ Len(solver.progress) =
                sl.calls.init + sl.calls.expand + sl.calls.bisect + sl.calls.scan

\* C9: every call of solve ends (returns or raises); it makes at most 2
\* initial probes, at most 10 expansions of 2 probes each, none of them once
\* the target is bracketed, and then at most 40 bisection probes or, when it
\* returns from the scan, exactly 121 scan probes
C9_Termination == []C9_Counts /\ <>SolveDone

\* C9 witness: a call has returned after all ten expansions and the full scan
C9_Witness_LongestCall ==
    /\ pc = "returned"
    /\ sl.calls.init = 2
    /\ sl.expand_iter = 10
    /\ sl.calls.expand = 20
    /\ sl.calls.scan = 121

\* C10 (as claimed): every projection of a solve is made with the goal age
\* an integer in 0..120, and the age solve returns and writes to the goal
\* milestone is in 0..120 as well, whatever the goal age was before
C10_AgeInRange ==
    (input.kind = "solve" /\ is_age_attr) =>
      /\ sl.goal_ages \subseteq 0..120
      /\ pc = "returned" =>
            /\ sl.solved_val \in 0..120
            /\ sl.working_ms[input.goal.milestone_id].age_at_occurrence \in 0..120

\* ------------------------------------------------------------------------
\*  Collections whose milestones refer to each other by name
\* ------------------------------------------------------------------------
N_Boat == <<"B","o","a","t">>

N_JOB_padded == <<"J","O","B"," ">>

N_rent_padded == <<" ","r","e","n","t">>

Linked(m, start_after, duration_end) ==
    [m EXCEPT !.start_after_milestone = start_after,
              !.duration_end_at_milestone = duration_end]

\* Job may start after Rent, after itself or after a milestone that does not
\* exist, and may end at Car or at Rent
LinkJobPart ==
    {Linked(Milestone(N_Job, "Income", BaseAge + 1, dd[1], 10000, dd[2], Some(0)),
            sa, de) :
        dd \in {<<"Fixed Duration", Some(2)>>, <<"Fixed Duration", Some(MaxDuration)>>,
                <<"Perpetuity", Some(2)>>, <<"Fixed Duration", None>>},
        sa \in {<<>>, N_Rent, N_JOB_padded, N_Boat},
        de \in {<<>>, N_Car, N_rent_padded}}

\* Rent may start after Job or Car, and may end at Job, at Car or at a
\* milestone that does not exist
LinkRentPart ==
    {Linked(Milestone(N_Rent, "Expense", BaseAge + 2, "Fixed Duration", 1000, d,
                      Some(0)), sa, de) :
        d \in {None, Some(1)},
        sa \in {<<>>, N_Job, N_Car},
        de \in {<<>>, N_Job, N_Car, N_Boat}}

LinkMilestones ==
    {<<Milestone(N_Savings, "Asset", BaseAge, "Perpetuity", 100000, None, Some(0)),
       j, r,
       Milestone(N_Car, "Asset", BaseAge + MaxAgeSpan + 2, "Perpetuity", -20000,
                 None, Some(0))>> \o i :
        j \in LinkJobPart, r \in LinkRentPart,
        i \in {<<>>,
               <<Milestone(N_Inheritance, "Expense", BaseAge + MaxAgeSpan + 1,
                           "Fixed Duration", 0, Some(1), Some(0))>>}}

LinkInit ==
    /\ input \in {[kind |-> "milestones", ms |-> M] : M \in LinkMilestones}
    /\ pc = "new"
    /\ model = NoModel
    /\ st = NoRun
    /\ table = None
    /\ solver = NoSolver
    /\ sl = NoSolve
    /\ prev = None
    /\ records = <<>>
    /\ job = NoJob
    /\ out = NoOut

\* DCFModel.from_milestones(milestones).run()
LinkNext == FromMilestones \/ RunBegin \/ RunStep \/ RunFinish

LinkSpec == LinkInit /\ [][LinkNext]_vars

\* ------------------------------------------------------------------------
\*  The batch baseline iterator: ScenarioDCFIterator and ScenarioDCF
\*  A combination (scenario, sub-scenario) is an index of input.combos, and
\*  input.combos[c] holds its milestones as the database stores them.
\* ------------------------------------------------------------------------
\* DCFModel.from_milestones(milestones).run().as_frame(): [err, rows, exact]
Projection(milestones) ==
    With(from_milestones(milestones), LAMBDA mdl :
      IF mdl.err # "" THEN [err |-> mdl.err, rows |-> <<>>, exact |-> TRUE]
      ELSE With(run(mdl), LAMBDA r :
             IF r.err # "" THEN [err |-> r.err, rows |-> <<>>, exact |-> TRUE]
             ELSE [err |-> "", rows |-> r.rows, exact |-> mdl.exact /\ r.exact]))

\* what ScenarioDCF.__init__ leaves in the records it loaded: the loop over
\* the milestones that are not opening-state ones rewrites duration and
\* payment of a Liability entered monthly (a Liability that reaches this
\* point is never dated at start_age, so the legacy skip does not apply)
ScenarioDCF_milestones(M0) ==
    With(M0, LAMBDA M :
      With(MinSeq([i \in 1..Len(M) |-> M[i].age_at_occurrence]), LAMBDA start_age :
        [i \in 1..Len(M) |->
            IF /\ ~(M[i].age_at_occurrence = start_age
                    /\ M[i].milestone_type \in FourTypes)
               /\ M[i].milestone_type = "Liability"
               /\ Occurrence(M[i]) = "Monthly"
            THEN [M[i] EXCEPT
                    !.duration = IF IsNone(@) THEN @
                                 ELSE Some(Max2(CeilDiv(Val(@), 12), 1)),
                    !.payment  = IF IsNone(@) THEN @ ELSE Some(Val(@) * 12)]
            ELSE M[i]]))

PlainCombo ==
    <<Milestone(N_Savings, "Asset", BaseAge, "Perpetuity", 100000, None, Some(0)),
      Milestone(N_Car, "Asset", BaseAge + 1, "Perpetuity", -20000, None, Some(0))>>

\* Job starts after a milestone that does not exist
DanglingCombo ==
    <<Milestone(N_Savings, "Asset", BaseAge, "Perpetuity", 100000, None, Some(0)),
      Linked(Milestone(N_Job, "Income", BaseAge + 1, "Fixed Duration", 10000,
                       Some(2), Some(0)), N_Boat, <<>>)>>

\* an income at the start age (KeyError in from_milestones)
OpeningFlowCombo ==
    <<Milestone(N_Savings, "Asset", BaseAge, "Perpetuity", 100000, None, Some(0)),
      Milestone(N_Job, "Income", BaseAge, "Fixed Duration", 10000, Some(2), Some(0))>>

\* a loan entered monthly: 24 months, with or without a monthly payment
MonthlyLoanCombo(payment) ==
    <<Milestone(N_Savings, "Asset", BaseAge, "Perpetuity", 100000, None, Some(0)),
      [Milestone(N_Debt, "Liability", BaseAge + 1, "Fixed Duration", 24000,
                 Some(24), Some(0))
         EXCEPT !.occurrence = "Monthly", !.payment = payment]>>

BatchCombos ==
    {PlainCombo, DanglingCombo, OpeningFlowCombo,
     MonthlyLoanCombo(None), MonthlyLoanCombo(Some(500))}

BatchInputs ==
    {[kind |-> "batch", combos |-> <<a, b>>] : a \in BatchCombos, b \in BatchCombos}

\* job: todo the combinations still in the set being iterated, cur the one
\* whose ScenarioDCF exists, skipped the ones left by "except ValueError"
BatchInit ==
    /\ input \in BatchInputs
    /\ pc = "b_loop"
    /\ model = NoModel
    /\ st = NoRun
    /\ table = None
    /\ solver = NoSolver
    /\ sl = NoSolve
    /\ prev = None
    /\ records = [c \in 1..Len(input.combos) |-> <<>>]
    /\ job = [name |-> "ScenarioDCFIterator", todo |-> 1..Len(input.combos),
              cur |-> 0, skipped |-> {}, err |-> ""]
    /\ out = [name |-> "dcf", dcf |-> [c \in 1..Len(input.combos) |-> None]]

\* for ... in combos (a set: any order): ScenarioDCF(db_connector, s, sub)
NewScenarioDCF ==
    /\ pc = "b_loop"
    /\ \E c \in job.todo :
          /\ records' = [records EXCEPT ![c] = ScenarioDCF_milestones(input.combos[c])]
          /\ job' = [job EXCEPT !.todo = @ \ {c}, !.cur = c]
    /\ pc' = "b_run"
    /\ UNCHANGED <<input, model, st, table, solver, sl, prev, out>>

\* sc_dcf.run() inside the try: rows upserted, or the ValueError dropped
ScenarioDCFRun ==
    /\ pc = "b_run"
    /\ \E p \in {Projection(records[job.cur])} :
          IF p.err = "ValueError"
          THEN /\ job' = [job EXCEPT !.skipped = @ \cup {job.cur}, !.cur = 0]
               /\ pc' = "b_loop"
               /\ UNCHANGED out
          ELSE IF p.err # ""
          THEN /\ job' = [job EXCEPT !.err = p.err]
               /\ pc' = "raised"
               /\ UNCHANGED out
          ELSE /\ out' = [out EXCEPT !.dcf[job.cur] = Some(p.rows)]
               /\ job' = [job EXCEPT !.cur = 0]
               /\ pc' = "b_loop"
    /\ UNCHANGED <<input, model, st, table, solver, sl, prev, records>>

\* the loop has gone through every combination
IteratorReturn ==
    /\ pc = "b_loop"
    /\ job.todo = {}
    /\ pc' = "returned"
    /\ UNCHANGED <<input, model, st, table, solver, sl, prev, records, job, out>>

BatchNext == NewScenarioDCF \/ ScenarioDCFRun \/ IteratorReturn

BatchSpec == BatchInit /\ [][BatchNext]_vars

\* ------------------------------------------------------------------------
\*  Properties of name references and of the batch iterator
\* ------------------------------------------------------------------------
\* some start_after_milestone or duration_end_at_milestone of M names no
\* milestone of M
Dangling(M) ==
    \E i \in 1..Len(M) :
      \E ref \in {M[i].start_after_milestone, M[i].duration_end_at_milestone} :
        ref # <<>> /\ name_to_ms(M, _norm_name(ref)) = 0

\* the iterator is through with combination c
Processed(c) == c \notin job.todo /\ (c # job.cur \/ pc = "raised")

\* C11 (as claimed): a combination with a reference to a milestone that does
\* not exist cannot be projected (ValueError, no table), and once the batch
\* iterator has handled it the iterator has ended with that ValueError: the
\* combination is never passed over
C11_MissingReferenceFatal ==
    \A c \in 1..Len(input.combos) :
      Dangling(input.combos[c]) =>
        /\ Projection(input.combos[c]).err = "ValueError"
        /\ Processed(c) => (pc = "raised" /\ job.err = "ValueError")

\* the stored duration as _effective_age adds it: "dur or 0"
StoredDur(m) == IF IsNone(m.duration) THEN 0 ELSE Val(m.duration)

\* milestone i starts after milestone j
StartsAfter(M, i, j) ==
    /\ M[i].start_after_milestone # <<>>
    /\ name_to_ms(M, _norm_name(M[i].start_after_milestone)) = j

\* milestone i ends at milestone j
EndsAt(M, i, j) ==
    /\ M[i].duration_end_at_milestone # <<>>
    /\ name_to_ms(M, _norm_name(M[i].duration_end_at_milestone)) = j

\* C12: when every reference of the collection has its target, from_milestones
\* resolves all ages and durations without the ValueError, whatever cycles the
\* references form; a milestone that starts after itself gets its stored age
\* plus its stored duration, and of two milestones that start after each
\* other each gets its stored age plus the stored durations of both (the
\* revisited milestone counts with its stored age and stored duration)
C12_CyclesResolve ==
    (input.kind = "milestones" /\ pc # "new" /\ ~Dangling(input.ms)) =>
      \A h \in {InputHorizon} :
        LET M == input.ms
        IN  /\ h.err = ""
            /\ model.err # "ValueError"
            /\ \A i \in 1..Len(M) :
                  StartsAfter(M, i, i) =>
                     h.age[i] = M[i].age_at_occurrence + StoredDur(M[i])
            /\ \A i \in 1..Len(M) : \A j \in 1..Len(M) \ {i} :
                  (StartsAfter(M, i, j) /\ StartsAfter(M, j, i)) =>
                     h.age[i] = M[i].age_at_occurrence + StoredDur(M[i])
                                + StoredDur(M[j])

\* C12 witness: a collection in which two milestones start after each other
\* and one of them also ends at the other has been built into a model
C12_Witness_MutualCycle ==
    /\ input.kind = "milestones"
    /\ pc = "built"
    /\ \E i \in 1..Len(input.ms) : \E j \in 1..Len(input.ms) \ {i} :
          /\ StartsAfter(input.ms, i, j)
          /\ StartsAfter(input.ms, j, i)
          /\ EndsAt(input.ms, i, j)

\* the milestones that milestone i names as start_after / duration_end target
Refs(M, i) == {j \in 1..Len(M) : StartsAfter(M, i, j) \/ EndsAt(M, i, j)}

\* the milestones reached from the set S in at most n reference steps
RECURSIVE ReachIn(_, _, _)
ReachIn(M, S, n) ==
    IF n = 0 THEN S
    ELSE ReachIn(M, S \cup UNION {Refs(M, k) : k \in S}, n - 1)

\* the milestones the resolution of milestone i can visit
Reach(M, i) == ReachIn(M, Refs(M, i), Len(M))

\* no milestone visited while resolving milestone i lies on a reference cycle
NoCycle(M, i) == \A k \in Reach(M, i) \cup {i} : k \notin Reach(M, k)

\* the value "dur or 0" of a resolved duration
DurOrZero(d) == IF IsNone(d) THEN 0 ELSE Val(d)

\* C13 (as claimed): a milestone M that starts after a milestone T, with no
\* reference cycle involved, starts at the effective age of T plus the
\* effective duration of T, the duration being the one the resolver gives for
\* T resolved on its own (end link resolved, Inheritance cap applied, 0 when
\* open-ended)
C13_StartAfterAge ==
    (input.kind = "milestones" /\ pc # "new" /\ ~Dangling(input.ms)) =>
      \A h \in {InputHorizon} :
        /\ h.err = ""
        /\ \A i \in 1..Len(input.ms) : \A j \in 1..Len(input.ms) :
              (StartsAfter(input.ms, i, j) /\ NoCycle(input.ms, i)) =>
                 h.age[i] = h.age[j] + DurOrZero(h.dur[j])

\* C14 (as claimed): a milestone M whose duration ends at a milestone T, with
\* no reference cycle involved, ends (effective age plus effective duration)
\* at the later of its own effective age and the earlier of T's effective age
\* and the Inheritance age, with a duration that is never negative, also when
\* M's own start is derived through start_after_milestone
C14_DurationEndsAtTarget ==
    (input.kind = "milestones" /\ pc # "new" /\ ~Dangling(input.ms)) =>
      \A h \in {InputHorizon} :
        /\ h.err = ""
        /\ \A i \in 1..Len(input.ms) : \A j \in 1..Len(input.ms) :
              (EndsAt(input.ms, i, j) /\ NoCycle(input.ms, i)) =>
                 /\ ~IsNone(h.dur[i])
                 /\ Val(h.dur[i]) >= 0
                 /\ h.age[i] + Val(h.dur[i])
                      = Max2(h.age[i],
                             IF IsNone(h.inh) THEN h.age[j]
                             ELSE Min2(h.age[j], Val(h.inh)))

\* C19 (as claimed): constructing a ScenarioDCF for a combination and running
\* it leaves every field of every milestone record it loaded as it was
\* loaded, and the table it stores is the projection of the field values as
\* they were loaded
C19_MilestonesReadOnly ==
    input.kind = "batch" =>
      \A c \in 1..Len(input.combos) :
        /\ c \notin job.todo => records[c] = input.combos[c]
        /\ ~IsNone(out.dcf[c]) =>
              Val(out.dcf[c]) = Projection(input.combos[c]).rows

\* ------------------------------------------------------------------------
\*  run() called again on the same DCFModel
\* ------------------------------------------------------------------------
\* summary()
summary(mdl) ==
    [ending_assets      |-> mdl.assets[Len(mdl.assets)],
     ending_liabilities |-> mdl.liabilities[Len(mdl.liabilities)],
     net_worth          |-> mdl.assets[Len(mdl.assets)]
                              - mdl.liabilities[Len(mdl.liabilities)]]

\* the caller keeps the table and the summary of the first call and calls
\* run() again: the loan schedules are initialised from the model as it is
RunAgain ==
    /\ pc = "done"
    /\ IsNone(prev)
    /\ prev' = Some([table |-> Val(table), summary |-> summary(model)])
    /\ st' = RunStart(model)
    /\ pc' = IF st'.err # "" THEN "raised" ELSE "running"
    /\ UNCHANGED <<input, model, table, solver, sl, records, job, out>>

RerunNext ==
    FromMilestones \/ Construct \/ RunBegin \/ RunStep \/ RunFinish \/ RunAgain

RerunSpec == Init /\ [][RerunNext]_vars

\* C20 (as claimed): a second call of run() on the same model leaves the same
\* table and the same summary as the first call
C20_RunRepeatable ==
    (pc = "done" /\ ~IsNone(prev)) =>
      /\ table = Some(Val(prev).table)
      /\ summary(model) = Val(prev).summary

\* ------------------------------------------------------------------------
\*  simulate_milestones (dcf_monte_carlo) as a state machine
\*  a sampled value is a binary fraction as the search values above; an
\*  amount is sampled in whole units and a rate in whole per cent
\* ------------------------------------------------------------------------
\* the age _ending_ba looks for
EndingAge == 100

\* number of draws of the longest simulation
MaxIterations == 3

\* _ending_ba: Beginning Assets of the row of age 100, of the last row when
\* there is none
_ending_ba(rows) ==
    LET hit == {k \in 1..Len(rows) : rows[k].Age = EndingAge}
    IN  IF hit # {}
        THEN rows[CHOOSE k \in hit : \A j \in hit : k <= j].BeginningAssets
        ELSE rows[Len(rows)].BeginningAssets

\* the value of the sample as it is applied: an age is clamped,
\* max(0, min(120, int(round(sample_val)))), any other value is taken as drawn
SampleValue(parameter, x) ==
    IF parameter = "age_at_occurrence" THEN Clamp(Round(x)) ELSE x.i

\* _apply_param of dcf_monte_carlo on the copy of the milestones, the value
\* being float(str(sample_val)): [err, ms]
mc_apply_param(milestones, spv, v) ==
    IF spv.milestone_id \notin 1..Len(milestones)
    THEN [err |-> "StopIteration", ms |-> milestones]
    ELSE [err |-> "",
          ms  |-> SetAttr(milestones, spv.milestone_id, spv.parameter, v)]

\* the horizon bound of the model built from M is the age of milestone i, a
\* float after _apply_param: min() and max() return the first of equal
\* elements, and end_age = min(end_age, inheritance_age) its first argument
FloatHorizon(M, i) ==
    With(Horizon(M), LAMBDA h :
      LET cand(k) == IF ~IsNone(h.dur[k]) /\ Val(h.dur[k]) > 0
                     THEN h.age[k] + Val(h.dur[k]) ELSE h.age[k]
          first_min == /\ \A k \in 1..Len(M) : h.age[i] <= h.age[k]
                       /\ \A k \in 1..(i - 1) : h.age[i] < h.age[k]
          first_max == /\ \A k \in 1..Len(M) : cand(i) >= cand(k)
                       /\ \A k \in 1..(i - 1) : cand(i) > cand(k)
      IN  h.err = "" /\
          (first_min \/ (first_max /\ (IsNone(h.inh) \/ cand(i) <= Val(h.inh)))))

\* DCFModel.from_milestones(candidate_ms).run().as_frame() for milestones
\* that hold no Liability: when the sampled field is the age, run() meets a
\* float number of years in range(years + 1) if the age bounds the horizon
candidate_frame(M, spv) ==
    With(from_milestones(M), LAMBDA mdl :
      IF mdl.err # "" THEN [err |-> mdl.err, rows |-> <<>>, exact |-> TRUE]
      ELSE IF spv.parameter = "age_at_occurrence" /\ FloatHorizon(M, spv.milestone_id)
      THEN [err |-> "TypeError", rows |-> <<>>, exact |-> TRUE]
      ELSE With(run(mdl), LAMBDA r :
             IF r.err # "" THEN [err |-> r.err, rows |-> <<>>, exact |-> TRUE]
             ELSE [err |-> "", rows |-> r.rows, exact |-> mdl.exact /\ r.exact]))

\* the table of one draw: [err, rows, exact]
Draw(milestones, spv, x) ==
    With(mc_apply_param(milestones, spv, SampleValue(spv.parameter, x)), LAMBDA c :
      IF c.err # "" THEN [err |-> c.err, rows |-> <<>>, exact |-> TRUE]
      ELSE candidate_frame(c.ms, spv))

\* "ending_ba >= best_ba"
MCBetter_OrEqual(ending_ba, best) == IsNone(best) \/ ending_ba >= Val(best).ba

\* "ending_ba > best_ba"; best None stands for -math.inf
MCBetter(ending_ba, best) == IsNone(best) \/ ending_ba > Val(best).ba

\* "ending_ba < worst_ba"; worst None stands for math.inf
MCWorse(ending_ba, worst) == IsNone(worst) \/ ending_ba < Val(worst).ba

\* x + 1/2
PlusHalf(x) == NumAdd(x, NumHalf(NumOf(1)))

\* values rng.normal can return for the parameter
MCSamples(parameter, base_age) ==
    CASE parameter = "amount" -> {NumOf(-20000), NumOf(5000), NumOf(10000)}
      [] parameter = "rate_of_return" -> {NumOf(0), NumOf(10)}
      [] parameter = "age_at_occurrence" ->
            {PlusHalf(NumOf(base_age)), NumOf(base_age + 1),
             PlusHalf(NumOf(base_age + 1)), NumOf(base_age + 2), NumOf(125)}
      [] OTHER -> {NumOf(0)}

\* Savings, a two-year Job one year later and a Car bought at the end
MCMilestones(a0) ==
    <<Milestone(N_Savings, "Asset", a0, "Perpetuity", 100000, None, Some(0)),
      Milestone(N_Job, "Income", a0 + 1, "Fixed Duration", 10000, Some(2), Some(0)),
      Milestone(N_Car, "Asset", a0 + MaxAgeSpan + 1, "Perpetuity", -20000, None, Some(0))>>

MCSpvs ==
    {[milestone_id |-> 2, parameter |-> "amount", value |-> <<"1","0","0","0","0">>],
     [milestone_id |-> 3, parameter |-> "amount", value |-> <<"2","0","0","0","0">>],
     [milestone_id |-> 1, parameter |-> "rate_of_return", value |-> <<"0",".","0","7">>],
     [milestone_id |-> 2, parameter |-> "age_at_occurrence", value |-> <<"3","1">>],
     [milestone_id |-> 4, parameter |-> "amount", value |-> <<"7">>],
     [milestone_id |-> 2, parameter |-> "amount", value |-> <<"h","i","g","h">>]}

MCInputs ==
    {[kind |-> "montecarlo", base_age |-> a0, ms |-> MCMilestones(a0),
      spv |-> v, iterations |-> n] :
        a0 \in {BaseAge, EndingAge - 2}, v \in MCSpvs, n \in 0..MaxIterations}

MCInit ==
    /\ input \in MCInputs
    /\ pc = "mc_new"
    /\ model = NoModel
    /\ st = NoRun
    /\ table = None
    /\ solver = NoSolver
    /\ sl = NoSolve
    /\ prev = None
    /\ records = <<>>
    /\ job = NoJob
    /\ out = NoOut

\* simulate_milestones up to its loop: the copy of the milestones and the
\* numeric check of spv.value
SimulateBegin ==
    /\ pc = "mc_new"
    /\ IF _cast_value(input.spv.value).numeric
       THEN /\ job' = [name |-> "simulate_milestones", i |-> 0, err |-> "",
                       best |-> None, worst |-> None, draws |-> <<>>]
            /\ records' = <<input.ms>>
            /\ pc' = "mc_loop"
       ELSE /\ job' = [name |-> "simulate_milestones", i |-> 0, err |-> "ValueError",
                       best |-> None, worst |-> None, draws |-> <<>>]
            /\ records' = records
            /\ pc' = "raised"
    /\ UNCHANGED <<input, model, st, table, solver, sl, prev, out>>

\* one iteration of the loop; job.draws keeps the value drawn and the table
\* of every iteration made
SimulateIteration ==
    /\ pc = "mc_loop"
    /\ job.i < input.iterations
    /\ \E x \in MCSamples(input.spv.parameter, input.base_age) :
         \E df \in {Draw(records[1], input.spv, x)} :
           IF df.err # ""
           THEN /\ job' = [job EXCEPT !.err = df.err]
                /\ pc' = "raised"
           ELSE \E ending_ba \in {_ending_ba(df.rows)} :
                /\ job' = [job EXCEPT
                     !.best  = IF MCBetter(ending_ba, job.best)
                               THEN Some([ba |-> ending_ba, df |-> df.rows, iter |-> job.i])
                               ELSE @,
                     !.worst = IF MCWorse(ending_ba, job.worst)
                               THEN Some([ba |-> ending_ba, df |-> df.rows, iter |-> job.i])
                               ELSE @,
                     !.draws = Append(@, [x |-> x, df |-> df.rows, exact |-> df.exact]),
                     !.i     = @ + 1]
                /\ pc' = "mc_loop"
    /\ UNCHANGED <<input, model, st, table, solver, sl, prev, records, out>>

\* the assert after the loop and the return
SimulateReturn ==
    /\ pc = "mc_loop"
    /\ job.i >= input.iterations
    /\ IF IsNone(job.best) \/ IsNone(job.worst)
       THEN /\ job' = [job EXCEPT !.err = "AssertionError"]
            /\ out' = out
            /\ pc' = "raised"
       ELSE /\ out' = [name |-> "simulate_milestones",
                       best_iter  |-> Val(job.best).iter,
                       best_df    |-> Val(job.best).df,
                       worst_iter |-> Val(job.worst).iter,
                       worst_df   |-> Val(job.worst).df]
            /\ job' = job
            /\ pc' = "returned"
    /\ UNCHANGED <<input, model, st, table, solver, sl, prev, records>>

MCNext == SimulateBegin \/ SimulateIteration \/ SimulateReturn

MCSpec == MCInit /\ [][MCNext]_vars

\* the table of the milestones as passed in with the value of draw x applied
DrawnProjection(x) ==
    Projection(SetAttr(input.ms, input.spv.milestone_id, input.spv.parameter,
                       SampleValue(input.spv.parameter, x))).rows

_cast_any(v) == _cast_value(v)

\* setattr(ms[i], parameter, _cast_any(value)), a rate in per cent
SetCast(ms, i, parameter, value) ==
    With(_cast_any(value), LAMBDA val :
      IF ~val.numeric THEN ms
      ELSE IF parameter = "rate_of_return"
      THEN SetAttr(ms, i, parameter, val.hundredths)
      ELSE SetAttr(ms, i, parameter, val.hundredths \div 100))

\* _group_key without parent_milestone_id: ("name_type", (name, milestone_type))
_group_key(m) == <<m.name, m.milestone_type>>

\* the rows the batch iterator stored for the combination
BaselineDCF(M) == Projection(ScenarioDCF_milestones(M)).rows

\* combo_inh_age.get(combo): the age of the first milestone named inheritance
combo_inh_age(M) ==
    LET inh == {i \in 1..Len(M) : _norm_name(M[i].name) = K_inheritance}
    IN  IF inh = {} THEN None
        ELSE Some(M[CHOOSE i \in inh : \A j \in inh : i <= j].age_at_occurrence)

\* combo_last_age.get(combo): the greatest age of the baseline rows
combo_last_age(rows) ==
    IF rows = <<>> THEN None
    ELSE Some(MaxSeq([k \in 1..Len(rows) |-> rows[k].Age]))

\* Beginning Assets of the row of the given age; None when there is none
BA_at(rows, age) ==
    LET hit == {k \in 1..Len(rows) : rows[k].Age = age}
    IN  IF hit = {} THEN None
        ELSE Some(rows[CHOOSE k \in hit : \A j \in hit : k <= j].BeginningAssets)

\* _lookup_anchor(combo): [skip, err, ba, age]
_lookup_anchor(M, rows) ==
    LET inh_age  == combo_inh_age(M)
        last_age == combo_last_age(rows)
    IN  IF ~IsNone(inh_age) /\ ~IsNone(BA_at(rows, Val(inh_age)))
        THEN [skip |-> FALSE, err |-> "", ba |-> Val(BA_at(rows, Val(inh_age))),
              age |-> inh_age]
        ELSE IF ~IsNone(last_age)
        THEN [skip |-> FALSE, err |-> "", ba |-> Val(BA_at(rows, Val(last_age))),
              age |-> last_age]
        ELSE [skip |-> TRUE, err |-> "", ba |-> 0, age |-> None]

\* the anchor of a scenario value taken from the target combination: the
\* copy of the target's records with the value applied to the milestone of
\* the same group key, projected, and the balance at the target's
\* inheritance age (at the last age when the table has no such row):
\* [skip, err, ba, age]
TargetAnchor(target_ms_list, src_ms, spv, target_last_age) ==
    LET same == {i \in 1..Len(target_ms_list) :
                    _group_key(target_ms_list[i]) = _group_key(src_ms)}
    IN  IF same = {} THEN [skip |-> TRUE, err |-> "", ba |-> 0, age |-> None]
        ELSE
          With(SetCast(target_ms_list, CHOOSE i \in same : \A j \in same : i <= j,
                       spv.parameter, spv.value), LAMBDA target_copy :
          With(Projection(target_copy), LAMBDA df_anchor :
            IF df_anchor.err # ""
            THEN [skip |-> FALSE, err |-> df_anchor.err, ba |-> 0, age |-> None]
            ELSE
              LET inh         == combo_inh_age(target_copy)
                  tgt_inh_age == IF IsNone(inh) THEN target_last_age ELSE inh
                  rows        == df_anchor.rows
                  last_age    == MaxSeq([k \in 1..Len(rows) |-> rows[k].Age])
              IN  IF ~IsNone(tgt_inh_age) /\ ~IsNone(BA_at(rows, Val(tgt_inh_age)))
                  THEN [skip |-> FALSE, err |-> "",
                        ba |-> Val(BA_at(rows, Val(tgt_inh_age))), age |-> tgt_inh_age]
                  ELSE [skip |-> FALSE, err |-> "",
                        ba |-> Val(BA_at(rows, last_age)), age |-> Some(last_age)]))

\* the key of scenario_spv_anchor_cache
AnchorKey(src_ms, spv) == <<_group_key(src_ms), spv.parameter, spv.value>>

\* the key of a solved_dcf row sequence
SolvedKey(c, goal, spv) ==
    [sub_scenario_id |-> c, goal_parameter |-> goal.parameter,
     scenario_parameter |-> spv.parameter, scenario_value |-> spv.value]

\* one entry of solved_param_records
SolvedRecord(c, goal, spv, solved_value) ==
    [milestone_id |-> <<c, goal.milestone_id>>, sub_scenario_id |-> c,
     goal_parameter |-> goal.parameter, scenario_parameter |-> spv.parameter,
     scenario_value |-> spv.value, solved_value |-> solved_value]

\* _upsert_solved_dcf: the rows of one sequence written into the table, a
\* row of the same key and age being overwritten
RECURSIVE UpsertRows(_, _, _, _)
UpsertRows(tbl, key, rows, k) ==
    IF k > Len(rows) THEN tbl
    ELSE UpsertRows({e \in tbl : ~(e.key = key /\ e.age = rows[k].Age)}
                      \cup {[key |-> key, age |-> rows[k].Age, row |-> rows[k]]},
                    key, rows, k + 1)

RECURSIVE _upsert_solved_dcf(_, _, _)
_upsert_solved_dcf(tbl, seqs, k) ==
    IF k > Len(seqs) THEN tbl
    ELSE _upsert_solved_dcf(UpsertRows(tbl, seqs[k].key, seqs[k].rows, 1), seqs, k + 1)

\* upsert_solved_parameter_values: the first row of the same (milestone_id,
\* goal_parameter, scenario_parameter, scenario_value) takes the new value
RECURSIVE upsert_solved_parameter_values(_, _, _)
upsert_solved_parameter_values(tbl, recs, k) ==
    IF k > Len(recs) THEN tbl
    ELSE
      LET r    == recs[k]
          same == {e \in tbl : /\ e.milestone_id = r.milestone_id
                               /\ e.goal_parameter = r.goal_parameter
                               /\ e.scenario_parameter = r.scenario_parameter
                               /\ e.scenario_value = r.scenario_value}
      IN  upsert_solved_parameter_values((tbl \ same) \cup {r}, recs, k + 1)

S_12000 == <<"1","2","0","0","0">>

S_35 == <<"3","5">>

\* two sub-scenarios of one scenario: the retirement plan with a Job of the
\* given amount, and the plain retirement plan
RunnerCombos(job_amount) ==
    <<SetAttr(RetirementMs(BaseAge + 6), 2, "amount", job_amount),
      RetirementMs(BaseAge + 6)>>

\* the scenario values of sub-scenario 1 when it is the target, spv being
\* the value both sub-scenarios have
TargetSpvs(spv) ==
    {<<spv>>,
     <<ScenarioParameterValue(3, "age_at_occurrence", S_35), spv>>,
     <<ScenarioParameterValue(2, "amount", S_12000), spv>>,
     <<spv, ScenarioParameterValue(2, "amount", S_12000)>>}

\* goals[c] and spvs[c] are the goals and scenario values whose milestone is
\* in combination c; every combination that is solved has the one goal and
\* the one scenario value the solver is called with; target 0: no target
RunnerInput(combos, target, goal, spv, spvs) ==
    [kind |-> "runner", via |-> "runner", combos |-> combos, target |-> target,
     goal |-> goal, spv |-> spv,
     goals |-> [c \in 1..Len(combos) |-> <<goal>>], spvs |-> spvs]

RunnerInputs ==
    {in \in {RunnerInput(RunnerCombos(j), t, Goal(3, "age_at_occurrence"),
                         ScenarioParameterValue(1, "amount", S_110000), <<s1, s2>>) :
                j \in {10000, 30000}, t \in {0, 1},
                s1 \in TargetSpvs(ScenarioParameterValue(1, "amount", S_110000)),
                s2 \in {<<>>, <<ScenarioParameterValue(1, "amount", S_110000)>>}} :
        in.target # 0 \/ Len(in.spvs[1]) = 1}

RunnerInit ==
    /\ input \in RunnerInputs
    /\ pc = "r_loop"
    /\ model = NoModel
    /\ st = NoRun
    /\ table = None
    /\ solver = NoSolver
    /\ sl = NoSolve
    /\ prev = None
    /\ records = input.combos
    /\ job = [name |-> "DCFSolverRunner", todo |-> 1..Len(input.combos),
              cur |-> 0, k |-> 0, cache |-> {}, solved_for |-> {},
              solved |-> <<>>, err |-> ""]
    /\ out = [name |-> "solved", solved_param_records |-> <<>>,
              solved_dcf_rows |-> <<>>, solved_dcf |-> {},
              solved_parameter_values |-> {}]

is_target_sub == input.target = job.cur

\* the outer loop takes the next combination; one without goals or without
\* scenario values is passed over
RunnerNextCombo ==
    /\ pc = "r_loop"
    /\ \E c \in job.todo :
         IF input.goals[c] = <<>> \/ input.spvs[c] = <<>>
         THEN /\ job' = [job EXCEPT !.todo = @ \ {c}]
              /\ pc' = "r_loop"
         ELSE /\ job' = [job EXCEPT !.todo = @ \ {c}, !.cur = c, !.k = 1]
              /\ pc' = "r_spv"
    /\ UNCHANGED <<input, model, st, table, solver, sl, prev, records, out>>

\* a scenario value of the target sub-scenario: it is set on the
\* combination's records and the goal fields are recorded as they are
RunnerTargetSpv ==
    /\ pc = "r_spv"
    /\ job.k <= Len(input.spvs[job.cur])
    /\ is_target_sub
    /\ LET c     == job.cur
           spv   == input.spvs[c][job.k]
           goals == input.goals[c]
       IN  \E ms \in {SetCast(records[c], spv.milestone_id, spv.parameter, spv.value)} :
             /\ records' = [records EXCEPT ![c] = ms]
             /\ out' = [out EXCEPT !.solved_param_records = @ \o
                          [g \in 1..Len(goals) |->
                              SolvedRecord(c, goals[g], spv,
                                  GetAttr(ms[goals[g].milestone_id], goals[g].parameter))]]
             /\ job' = [job EXCEPT !.k = @ + 1,
                                   !.solved = @ \o [g \in 1..Len(goals) |-> ms]]
    /\ pc' = "r_spv"
    /\ UNCHANGED <<input, model, st, table, solver, sl, prev>>

\* a scenario value of any other combination up to the construction of the
\* solver: the anchor from the cache, from the target combination or from
\* the combination's own baseline rows
RunnerAnchor ==
    /\ pc = "r_spv"
    /\ job.k <= Len(input.spvs[job.cur])
    /\ ~is_target_sub
    /\ LET c      == job.cur
           spv    == input.spvs[c][job.k]
           src_ms == records[c][spv.milestone_id]
           key    == AnchorKey(src_ms, spv)
           cached == {e \in job.cache : e.key = key}
       IN  \E a \in {IF input.target = 0
                     THEN _lookup_anchor(records[c], BaselineDCF(input.combos[c]))
                     ELSE IF cached # {}
                     THEN [skip |-> FALSE, err |-> "",
                           ba |-> (CHOOSE e \in cached : TRUE).ba,
                           age |-> (CHOOSE e \in cached : TRUE).age]
                     ELSE TargetAnchor(records[input.target], src_ms, spv,
                              combo_last_age(BaselineDCF(input.combos[input.target])))} :
             IF a.err # ""
             THEN /\ job' = [job EXCEPT !.err = a.err]
                  /\ pc' = "raised"
                  /\ UNCHANGED <<solver, sl>>
             ELSE IF a.skip
             THEN /\ job' = [job EXCEPT !.k = @ + 1]
                  /\ pc' = "r_spv"
                  /\ UNCHANGED <<solver, sl>>
             ELSE /\ job' = [job EXCEPT
                       !.cache = IF input.target = 0 THEN @
                                 ELSE @ \cup {[key |-> key, ba |-> a.ba, age |-> a.age]},
                       !.solved_for = @ \cup {c}]
                  /\ solver' = [base_ms |-> records[c], target_ba |-> a.ba,
                                anchor_age |-> a.age, progress |-> <<>>]
                  /\ sl' = NoSolve
                  /\ pc' = "ready"
    /\ UNCHANGED <<input, model, st, table, prev, records, out>>

\* solve has returned: the solved value is recorded and the solved
\* milestones are projected into solved_dcf_rows
RunnerCollect ==
    /\ pc = "returned"
    /\ job.name = "DCFSolverRunner"
    /\ LET c   == job.cur
           spv == input.spvs[c][job.k]
       IN  \E df \in {Projection(sl.working_ms)} :
             IF df.err # ""
             THEN /\ job' = [job EXCEPT !.err = df.err]
                  /\ out' = [out EXCEPT !.solved_param_records =
                               Append(@, SolvedRecord(c, input.goal, spv, Some(sl.solved_val)))]
                  /\ pc' = "raised"
             ELSE /\ out' = [out EXCEPT
                       !.solved_param_records =
                           Append(@, SolvedRecord(c, input.goal, spv, Some(sl.solved_val))),
                       !.solved_dcf_rows =
                           Append(@, [key  |-> SolvedKey(c, input.goal, spv),
                                      rows |-> df.rows])]
                  /\ job' = [job EXCEPT !.k = @ + 1,
                                        !.solved = Append(@, sl.working_ms)]
                  /\ pc' = "r_spv"
    /\ UNCHANGED <<input, model, st, table, solver, sl, prev, records>>

\* the scenario values of the combination are exhausted
RunnerSpvsDone ==
    /\ pc = "r_spv"
    /\ job.k > Len(input.spvs[job.cur])
    /\ job' = [job EXCEPT !.cur = 0, !.k = 0]
    /\ pc' = "r_loop"
    /\ UNCHANGED <<input, model, st, table, solver, sl, prev, records, out>>

\* "commit all rows": the two upserts
RunnerCommit ==
    /\ pc = "r_loop"
    /\ job.todo = {}
    /\ out' = [out EXCEPT
          !.solved_dcf = _upsert_solved_dcf(@, out.solved_dcf_rows, 1),
          !.solved_parameter_values =
              upsert_solved_parameter_values(@, out.solved_param_records, 1)]
    /\ pc' = "r_done"
    /\ UNCHANGED <<input, model, st, table, solver, sl, prev, records, job>>

RunnerNext ==
    \/ RunnerNextCombo \/ RunnerTargetSpv \/ RunnerAnchor
    \/ SolveBegin \/ Expand \/ ScanStep \/ BisectStep
    \/ RunnerCollect \/ RunnerSpvsDone \/ RunnerCommit

RunnerSpec == RunnerInit /\ [][RunnerNext]_vars

\* the scenario values of combination c
SpvsOf(c) == {input.spvs[c][k] : k \in 1..Len(input.spvs[c])}

\* C16 (as claimed): no solver is constructed for the target sub-scenario,
\* and every value recorded for it is the value of the goal field in the
\* target's milestones as loaded with only the scenario value of that
\* record applied, whatever scenario values were handled before
C16_TargetRecordsBaseline ==
    (input.kind = "runner" /\ input.target # 0) =>
      LET t    == input.target
          recs == out.solved_param_records
      IN  /\ t \notin job.solved_for
          /\ \A k \in 1..Len(recs) :
                recs[k].sub_scenario_id = t =>
                  \E s \in SpvsOf(t) :
                    /\ s.parameter = recs[k].scenario_parameter
                    /\ s.value = recs[k].scenario_value
                    /\ recs[k].solved_value =
                         GetAttr(SetCast(input.combos[t], s.milestone_id,
                                         s.parameter, s.value)[recs[k].milestone_id[2]],
                                 recs[k].goal_parameter)

\* C17 (as claimed): the milestone records of every combination stay as
\* they were loaded while the runner works, and every anchor in the cache is
\* the anchor computed from the target's records as loaded, so that it is
\* the same for every order in which the combinations are taken
C17_RecordsNeverChange ==
    input.kind = "runner" =>
      /\ records = input.combos
      /\ \A e \in job.cache :
           \E c \in 1..Len(input.combos) : \E s \in SpvsOf(c) :
             /\ AnchorKey(input.combos[c][s.milestone_id], s) = e.key
             /\ \E a \in {TargetAnchor(input.combos[input.target],
                              input.combos[c][s.milestone_id], s,
                              combo_last_age(BaselineDCF(input.combos[input.target])))} :
                   e.ba = a.ba /\ e.age = a.age

\* the rows stored in solved_dcf under the key
StoredRows(key) == {[age |-> e.age, row |-> e.row] : e \in {x \in out.solved_dcf : x.key = key}}

\* the rows of a table as solved_dcf stores them
AsStored(rows) == {[age |-> rows[k].Age, row |-> rows[k]] : k \in 1..Len(rows)}

\* C18 (as claimed): after the run, every recorded solved value has a row
\* sequence stored in solved_dcf under its (sub-scenario, goal_parameter,
\* scenario_parameter, scenario_value) key, and that sequence is the
\* projection of the milestone set the value was recorded for, the
\* target sub-scenario included
C18_RowsForEveryValue ==
    (input.kind = "runner" /\ pc = "r_done") =>
      \A k \in 1..Len(out.solved_param_records) :
        LET r   == out.solved_param_records[k]
            key == [sub_scenario_id |-> r.sub_scenario_id,
                    goal_parameter |-> r.goal_parameter,
                    scenario_parameter |-> r.scenario_parameter,
                    scenario_value |-> r.scenario_value]
        IN  /\ StoredRows(key) # {}
            /\ StoredRows(key) = AsStored(Projection(job.solved[k]).rows)

\* ------------------------------------------------------------------------
\*  Milestones entered monthly, through the batch iterator
\* ------------------------------------------------------------------------
\* a flow of 1000 a month for two periods, at the start age or a year later
MonthlyFlowCombo(ty, a) ==
    <<Milestone(N_Savings, "Asset", BaseAge, "Perpetuity", 100000, None, Some(0)),
      [Milestone(IF ty = "Income" THEN N_Job ELSE N_Rent, ty, a, "Fixed Duration",
                 1000, Some(2), Some(0))
         EXCEPT !.occurrence = "Monthly"]>>

MonthlyCombos ==
    {MonthlyLoanCombo(p) : p \in {None, Some(500), Some(1000)}}
    \cup {MonthlyFlowCombo(ty, a) :
            ty \in {"Income", "Expense"}, a \in {BaseAge, BaseAge + 1}}

MonthlyInputs ==
    {[kind |-> "batch", combos |-> <<a, b>>] : a \in MonthlyCombos, b \in MonthlyCombos}

MonthlyInit ==
    /\ input \in MonthlyInputs
    /\ pc = "b_loop"
    /\ model = NoModel
    /\ st = NoRun
    /\ table = None
    /\ solver = NoSolver
    /\ sl = NoSolve
    /\ prev = None
    /\ records = [c \in 1..Len(input.combos) |-> <<>>]
    /\ job = [name |-> "ScenarioDCFIterator", todo |-> 1..Len(input.combos),
              cur |-> 0, skipped |-> {}, err |-> ""]
    /\ out = [name |-> "dcf", dcf |-> [c \in 1..Len(input.combos) |-> None]]

MonthlySpec == MonthlyInit /\ [][BatchNext]_vars

\* years of a loan entered with a duration in months
LoanYears(m) == Max2(CeilDiv(Val(m.duration), 12), 1)

\* the rows show every Monthly milestone of M in yearly figures, converted
\* once: a flow pays 12 x amount in its first year; a loan opens with the
\* principal as entered, is charged in its LoanYears and in no other year,
\* and is charged 12 x payment in each when a payment is given
YearlyOnce(M, rows) ==
    \A i \in 1..Len(M) :
      Occurrence(M[i]) = "Monthly" =>
        /\ M[i].milestone_type = "Income" =>
             \E k \in 1..Len(rows) : /\ rows[k].Age = M[i].age_at_occurrence
                                     /\ rows[k].Salary = 12 * M[i].amount
        /\ M[i].milestone_type = "Expense" =>
             \E k \in 1..Len(rows) : /\ rows[k].Age = M[i].age_at_occurrence
                                     /\ rows[k].Expenses = 12 * M[i].amount
        /\ M[i].milestone_type = "Liability" =>
             /\ \E k \in 1..Len(rows) :
                   /\ rows[k].Age = M[i].age_at_occurrence
                   /\ rows[k].BeginningLiabilities = M[i].amount
             /\ \A k \in 1..Len(rows) :
                   LET a == rows[k].Age - M[i].age_at_occurrence
                   IN  /\ rows[k].LiabilitiesExpense # 0
                            <=> (0 <= a /\ a < LoanYears(M[i]))
                       /\ (0 <= a /\ a < LoanYears(M[i]) /\ ~IsNone(M[i].payment))
                            => rows[k].LiabilitiesExpense = 12 * Val(M[i].payment)

\* C21 (as claimed): once the iterator has handled a combination, both the
\* projection of its milestones as entered and the table the iterator stored
\* for it exist and show every Monthly milestone normalised to yearly
\* figures exactly once, opening-state flows included
C21_MonthlyOnce ==
    input.kind = "batch" =>
      \A c \in 1..Len(input.combos) :
        Processed(c) =>
          /\ \E p \in {Projection(input.combos[c])} :
                p.err = "" /\ YearlyOnce(input.combos[c], p.rows)
          /\ ~IsNone(out.dcf[c])
          /\ YearlyOnce(input.combos[c], Val(out.dcf[c]))

\* ------------------------------------------------------------------------
\*  Ages covered by the stored projection
\* ------------------------------------------------------------------------
\* a purchase dated after the death marker
AfterDeathCombo ==
    <<Milestone(N_Savings, "Asset", BaseAge, "Perpetuity", 100000, None, Some(0)),
      Milestone(N_Inheritance, "Expense", BaseAge + 2, "Fixed Duration", 0,
                Some(1), Some(0)),
      Milestone(N_Car, "Asset", BaseAge + 4, "Perpetuity", -20000, None, Some(0))>>

\* a purchase stored with an early age that starts after Savings
DeferredCombo ==
    <<Milestone(N_Savings, "Asset", BaseAge, "Perpetuity", 100000, None, Some(0)),
      Linked(Milestone(N_Car, "Asset", BaseAge - 2, "Perpetuity", -20000, None,
                       Some(0)), N_Savings, <<>>)>>

RangeCombos == {PlainCombo, AfterDeathCombo, DeferredCombo, MonthlyLoanCombo(None)}

RangeInputs ==
    {[kind |-> "batch", combos |-> <<a, b>>] : a \in RangeCombos, b \in RangeCombos}

RangeInit ==
    /\ input \in RangeInputs
    /\ pc = "b_loop"
    /\ model = NoModel
    /\ st = NoRun
    /\ table = None
    /\ solver = NoSolver
    /\ sl = NoSolve
    /\ prev = None
    /\ records = [c \in 1..Len(input.combos) |-> <<>>]
    /\ job = [name |-> "ScenarioDCFIterator", todo |-> 1..Len(input.combos),
              cur |-> 0, skipped |-> {}, err |-> ""]
    /\ out = [name |-> "dcf", dcf |-> [c \in 1..Len(input.combos) |-> None]]

RangeSpec == RangeInit /\ [][BatchNext]_vars

\* the smallest and the largest age_at_occurrence stored for combination M
MinStoredAge(M) == MinSeq([i \in 1..Len(M) |-> M[i].age_at_occurrence])

MaxStoredAge(M) == MaxSeq([i \in 1..Len(M) |-> M[i].age_at_occurrence])

\* C22 (as claimed): when the batch iterator has returned, every
\* combination has a stored projection with a row for every age from the
\* smallest to the largest age_at_occurrence of its milestones, and no two
\* rows of a combination have the same age
C22_AgeRangeCovered ==
    (input.kind = "batch" /\ pc = "returned") =>
      \A c \in 1..Len(input.combos) :
        /\ ~IsNone(out.dcf[c])
        /\ \E rows \in {Val(out.dcf[c])} :
             /\ \A a \in MinStoredAge(input.combos[c])..MaxStoredAge(input.combos[c]) :
                  \E k \in 1..Len(rows) : rows[k].Age = a
             /\ \A k1, k2 \in 1..Len(rows) :
                  rows[k1].Age = rows[k2].Age => k1 = k2

\* ------------------------------------------------------------------------
\*  GrowingSeries.value_at, called step by step
\* ------------------------------------------------------------------------
\* the last step value_at is called with
MaxStep == 2

SeriesInputs ==
    {[kind |-> "series", s |-> GrowingSeries(1000, g, b, d)] :
        g \in {0, 10}, b \in 0..1, d \in {None, Some(0), Some(1), Some(2)}}

\* out.values holds the pairs (step, value_at(step)) obtained so far
SeriesInit ==
    /\ input \in SeriesInputs
    /\ pc = "series"
    /\ model = NoModel
    /\ st = NoRun
    /\ table = None
    /\ solver = NoSolver
    /\ sl = NoSolve
    /\ prev = None
    /\ records = <<>>
    /\ job = NoJob
    /\ out = [name |-> "value_at", values |-> {}]

\* s.value_at(step)
ValueAt ==
    /\ pc = "series"
    /\ \E step \in 0..MaxStep :
          /\ \A e \in out.values : e.step # step
          /\ out' = [out EXCEPT !.values =
                        @ \cup {[step |-> step, value |-> value_at(input.s, step)]}]
    /\ UNCHANGED <<input, pc, model, st, table, solver, sl, prev, records, job>>

SeriesNext == ValueAt

SeriesSpec == SeriesInit /\ [][SeriesNext]_vars

\* C23: value_at(step) is 0 before start_step, 0 from start_step + duration
\* on when a duration is set (always, when the duration is 0), and otherwise
\* initial_value x (1 + growth_rate) ^ (step - start_step), also for every
\* step from start_step on when the duration is None
C23_ValueAt ==
    input.kind = "series" =>
      \A e \in out.values :
        LET s   == input.s
            rel == e.step - s.start_step
        IN  IF e.step < s.start_step THEN e.value = 0
            ELSE IF ~IsNone(s.duration) /\ rel >= Val(s.duration) THEN e.value = 0
            ELSE e.value * Pow(100, rel) = s.initial_value * Pow(100 + s.growth_rate, rel)

\* an open-ended series one step after its start and one step before it
C23_Witness_Grown ==
    /\ input.kind = "series"
    /\ IsNone(input.s.duration)
    /\ input.s.growth_rate = 10
    /\ \E e \in out.values : e.step - input.s.start_step = 1 /\ e.value = 1100
    /\ \E e \in out.values : e.step < input.s.start_step /\ e.value = 0

\* ------------------------------------------------------------------------
\*  The bracket of the bisection loop
\* ------------------------------------------------------------------------
\* an iteration of the bisection loop that went on to "Maintain the bracket"
BisectMoved == BisectStep /\ (sl'.low # sl.low \/ sl'.high # sl.high)

\* high - low after the step is half of what it was before
WidthHalved ==
    LET w == NumSub(sl'.high, sl'.low) IN NumAdd(w, w) = NumSub(sl.high, sl.low)

\* C24: a bisection step that starts with the target between the balances
\* at low and high (an endpoint equal to the target included) leaves the
\* target between the balances at the new low and high, and halves the
\* interval
C24_BracketKept ==
    [][(BisectMoved /\ Bracketed(sl.ba_low, sl.ba_high, solver.target_ba))
       => (Bracketed(sl'.ba_low, sl'.ba_high, solver.target_ba) /\ WidthHalved)]_vars

\* ------------------------------------------------------------------------
\*  Repeated solve calls on one solver
\* ------------------------------------------------------------------------
MaxSolves == 2

\* the number of the solve call in progress or last returned
SolveCalls == IF job.name = "solve" THEN job.n ELSE 1

\* the caller calls solve again on the same solver with the same goal and
\* override: the locals of solve start afresh, base_ms and progress stay
SolveAgain ==
    /\ pc = "returned"
    /\ SolveCalls < MaxSolves
    /\ job' = [name |-> "solve", n |-> SolveCalls + 1]
    /\ sl' = NoSolve
    /\ pc' = "ready"
    /\ UNCHANGED <<input, model, st, table, solver, prev, records, out>>

ResolveNext == SolveNext \/ SolveAgain

ResolveSpec == SolveInit /\ [][ResolveNext]_vars

\* the value the override writes: float(spv.value), a rate in per cent
OverrideValue ==
    LET val == _cast_value(input.spv.value)
    IN  IF input.spv.parameter = "rate_of_return" THEN val.hundredths
        ELSE val.hundredths \div 100

\* M is the caller's list with the override applied, the goal field left
\* aside when butGoal holds
IsOverridden(M, butGoal) ==
    /\ Len(M) = Len(input.ms)
    /\ \A k \in 1..Len(M) : \A a \in DOMAIN M[k] :
         IF butGoal /\ k = input.goal.milestone_id /\ a = input.goal.parameter
         THEN TRUE
         ELSE IF k = input.spv.milestone_id /\ a = input.spv.parameter
         THEN GetAttr(M[k], a) = Some(OverrideValue)
         ELSE M[k][a] = input.ms[k][a]

\* C25: a solver's base copy stays equal to the caller's milestones; between
\* the probes of every solve call the working list is the caller's list with
\* only the override applied (each probe has restored the goal field); the
\* returned list is that list with the goal field set to the returned value
C25_SolveFrame ==
    /\ pc \in {"ready", "expand", "scan", "bisect", "returned"}
         => solver.base_ms = input.ms
    /\ pc \in {"expand", "scan", "bisect"} => IsOverridden(sl.working_ms, FALSE)
    /\ pc = "returned"
         => /\ IsOverridden(sl.working_ms, TRUE)
            /\ GetAttr(sl.working_ms[input.goal.milestone_id],
                       input.goal.parameter) = Some(sl.solved_val)

\* a second solve call has returned a list in which the override and the
\* solved goal value both differ from the caller's values
C25_Witness_SecondSolve ==
    /\ pc = "returned"
    /\ SolveCalls = 2
    /\ GetAttr(input.ms[input.spv.milestone_id], input.spv.parameter)
         # Some(OverrideValue)
    /\ GetAttr(input.ms[input.goal.milestone_id], input.goal.parameter)
         # Some(sl.solved_val)

\* ------------------------------------------------------------------------
\*  Loan balances: make_payment on its own and inside run()
\* ------------------------------------------------------------------------
MaxPayments == 3

\* loans as the dataclass admits them: paid off or not, with and without
\* interest, interest-only or with a payment below, at and above what is owed
AmortisingLoans ==
    {AmortisingLoan(p, r, d, pay) :
        p \in {0, 20000}, r \in {0, 10}, d \in {None, Some(2)},
        pay \in {-500, 0, 1000, 12000, 30000}}

\* (rate_override, duration, payment_override) of a template: interest-only
\* at the cost of debt, a two-year annuity without interest, a payment above
\* the interest, a payment below the interest, a payment on an open-ended loan
LoanShapes ==
    {<<None, None, None>>, <<Some(0), Some(2), None>>,
     <<Some(10), Some(2), Some(12000)>>, <<Some(10), Some(1), Some(1000)>>,
     <<Some(0), None, Some(5000)>>}

TemplateChoices ==
    {LoanTemplate(a, 20000, s[1], s[2], s[3]) :
        a \in {BaseAge, BaseAge + 1}, s \in LoanShapes}

\* DCFModel(start_age, end_age, ..., liability_templates = ...) with up to
\* two templates and with or without an opening liability
DebtInputs ==
    {DCFModelInit(BaseAge, BaseAge + MaxAgeSpan + 1, Assumptions(0, 0, 5),
                  100000, l0, 0, 0, <<>>, <<>>, <<>>, ts) :
        l0 \in {0, 5000},
        ts \in {<<>>} \cup {<<x>> : x \in TemplateChoices}
                      \cup {<<x, y>> : x \in TemplateChoices, y \in TemplateChoices}}

DebtInit ==
    /\ input \in {[kind |-> "direct", params |-> d] : d \in DebtInputs}
           \cup {[kind |-> "loan", loan |-> l] : l \in AmortisingLoans}
    /\ pc = IF input.kind = "loan" THEN "loan" ELSE "new"
    /\ model = NoModel
    /\ st = IF input.kind = "loan"
            THEN [NoRun EXCEPT !.active_loans = <<input.loan>>] ELSE NoRun
    /\ table = None
    /\ solver = NoSolver
    /\ sl = NoSolve
    /\ prev = None
    /\ records = <<>>
    /\ job = NoJob
    /\ out = NoOut

\* loan.make_payment() on a loan held by the caller; st.t counts the calls
MakePayment ==
    /\ pc = "loan"
    /\ st.t < MaxPayments
    /\ \E p \in {make_payment(st.active_loans[1])} :
         /\ st' = [st EXCEPT !.active_loans = <<p.loan>>, !.t = @ + 1]
         /\ out' = [name |-> "make_payment", total_payment |-> p.total_payment,
                    principal_repaid |-> p.principal_repaid]
    /\ UNCHANGED <<input, pc, model, table, solver, sl, prev, records, job>>

DebtNext == Construct \/ RunBegin \/ RunStep \/ RunFinish \/ MakePayment

DebtSpec == DebtInit /\ [][DebtNext]_vars

\* the principal of the templates filed under an age
TemplatePrincipal(mdl, age) ==
    SumSeq([k \in 1..Len(mdl.loan_templates) |->
              IF mdl.loan_templates[k].age = age
              THEN mdl.loan_templates[k].principal ELSE 0])

TemplateCount(mdl, age) ==
    Cardinality({k \in 1..Len(mdl.loan_templates) : mdl.loan_templates[k].age = age})

\* one payment on `loan` leaves `after`, having repaid `repaid`
PaymentInBounds(loan, after, repaid) ==
    /\ after.principal_remaining <= loan.principal_remaining
    /\ after.principal_remaining >= 0
    /\ 0 <= repaid /\ repaid <= loan.principal_remaining

\* the loans that are active at the beginning of the year RunStep projects
BeganWith ==
    IF st.t = 0 THEN st.active_loans
    ELSE InjectLoans(TemplatesAt(model, model.start_age + st.t),
                     model.assump.cost_of_debt,
                     [err |-> "", exact |-> TRUE, loans |-> st.active_loans]).loans

\* C26: a payment never raises the principal nor makes it negative and
\* repays between 0 and what is outstanding; run() starts with one loan per
\* template of the start age (or the fallback loan), adds in each later year
\* one loan per template of that age, and ends each year with the year's
\* beginning liabilities less the principal repaid in it, so that
\* beginning_liabilities(a+1) = beginning_liabilities(a) - repaid(a)
\* + principal of the loans starting at a+1
C26_LoanBalances ==
    [][/\ MakePayment
            => PaymentInBounds(st.active_loans[1], st'.active_loans[1],
                               out'.principal_repaid)
       /\ (RunBegin /\ st'.err = "")
            => IF TemplateCount(model, model.start_age) > 0
               THEN /\ Len(st'.active_loans) = TemplateCount(model, model.start_age)
                    /\ PrincipalSum(st'.active_loans)
                         = TemplatePrincipal(model, model.start_age)
               ELSE PrincipalSum(st'.active_loans) = Max2(model.liabilities[1], 0)
       /\ (RunStep /\ st'.err = "")
            => LET age  == model.start_age + st.t
                   row  == st'.rows[Len(st'.rows)]
                   fresh == IF st.t = 0 THEN 0 ELSE TemplatePrincipal(model, age)
                   began == BeganWith
                   paid  == [k \in 1..Len(began) |-> make_payment(began[k])]
               IN  /\ Len(began) = Len(st.active_loans)
                        + (IF st.t = 0 THEN 0 ELSE TemplateCount(model, age))
                   /\ row.BeginningLiabilities
                        = PrincipalSum(st.active_loans) + fresh
                   /\ \A k \in 1..Len(began) :
                        PaymentInBounds(began[k], paid[k].loan,
                                        paid[k].principal_repaid)
                   /\ PrincipalSum(st'.active_loans)
                        = row.BeginningLiabilities
                          - SumSeq([k \in 1..Len(began) |-> paid[k].principal_repaid])
      ]_vars

\* a run with a loan of the start age and a loan of the next age, after the
\* year in which the second one started and the first one repaid principal
C26_Witness_TwoLoans ==
    /\ pc = "running"
    /\ Len(st.rows) = 2
    /\ TemplateCount(model, model.start_age) = 1
    /\ TemplateCount(model, model.start_age + 1) = 1
    /\ st.rows[1].BeginningLiabilities = 20000
    /\ st.rows[2].BeginningLiabilities = 30000
    /\ PrincipalSum(st.active_loans) < 30000

\* ------------------------------------------------------------------------
\*  The years in which a loan is charged
\* ------------------------------------------------------------------------
\* the run projects a model whose only debt is one template
SingleTemplate ==
    /\ pc \in {"running", "done"}
    /\ Len(model.loan_templates) = 1
    /\ model.liabilities[1] = 0

\* C27: the only loan of a model, when it has a fixed duration, is charged
\* in no year before its start and in no year from start + duration on
C27_ChargedWithinDuration ==
    (SingleTemplate /\ ~IsNone(model.loan_templates[1].duration))
      => LET tmpl == model.loan_templates[1]
         IN  \A k \in 1..Len(st.rows) :
               (st.rows[k].Age < tmpl.age
                \/ st.rows[k].Age >= tmpl.age + Val(tmpl.duration))
                 => st.rows[k].LiabilitiesExpense = 0

\* C28: the only loan of a model, when its template supplies a payment, is
\* charged that payment in every year in which it is active (it has started
\* and has principal left at the beginning of the year), with a fixed
\* duration or without one
C28_SuppliedPaymentCharged ==
    (SingleTemplate /\ ~IsNone(model.loan_templates[1].pay_override))
      => LET tmpl == model.loan_templates[1]
         IN  \A k \in 1..Len(st.rows) :
               (st.rows[k].Age >= tmpl.age /\ st.rows[k].BeginningLiabilities > 0)
                 => st.rows[k].LiabilitiesExpense = Val(tmpl.pay_override)

\* ------------------------------------------------------------------------
\*  Inputs on which a projection is expected to complete
\* ------------------------------------------------------------------------
\* a non-empty list whose references all resolve and whose ages, durations
\* and amounts are non-negative
WellFormed(M) ==
    /\ Len(M) > 0
    /\ ~Dangling(M)
    /\ \A i \in 1..Len(M) :
         /\ M[i].age_at_occurrence >= 0
         /\ M[i].amount >= 0
         /\ IsNone(M[i].duration) \/ Val(M[i].duration) >= 0

\* C29: from_milestones(...).run() on a well-formed milestone list raises
\* nothing, neither while the model is built nor while it is run
C29_WellFormedCompletes ==
    (input.kind = "milestones" /\ WellFormed(input.ms)) => pc # "raised"

\* ------------------------------------------------------------------------
\*  Several asset events at one age
\* ------------------------------------------------------------------------
N_Bonus == <<"B","o","n","u","s">>

N_Gift == <<"G","i","f","t">>

\* savings at the start age, a bonus and a gift each dated after it, with or
\* without the death marker
EventMs ==
    {<<Milestone(N_Savings, "Asset", BaseAge, "Perpetuity", 100000, None, r),
       Milestone(N_Bonus, "Asset", a1, "Perpetuity", 5000, None, None),
       Milestone(N_Gift, "Asset", a2, "Perpetuity", g, None, None)>> \o i :
        r \in {Some(0), Some(8)},
        a1 \in (BaseAge + 1)..(BaseAge + MaxAgeSpan),
        a2 \in (BaseAge + 1)..(BaseAge + MaxAgeSpan),
        g \in {5000, 7000},
        i \in {<<>>, <<Milestone(N_Inheritance, "Expense", BaseAge + MaxAgeSpan + 1,
                                 "Fixed Duration", 0, Some(1), Some(0))>>}}

EventInit ==
    /\ input \in {[kind |-> "milestones", ms |-> M] : M \in EventMs}
           \cup {[kind |-> "direct", params |-> d] : d \in DirectInputs}
    /\ pc = "new"
    /\ model = NoModel
    /\ st = NoRun
    /\ table = None
    /\ solver = NoSolver
    /\ sl = NoSolve
    /\ prev = None
    /\ records = <<>>
    /\ job = NoJob
    /\ out = NoOut

EventSpec == EventInit /\ [][Next]_vars

\* the amounts of the Asset milestones dated at an age
EventSum(M, age) ==
    SumSeq([i \in 1..Len(M) |->
              IF M[i].milestone_type = "Asset" /\ M[i].age_at_occurrence = age
              THEN M[i].amount ELSE 0])

\* C30: in every year after the first, beginning assets are the assets the
\* previous year ended with plus the amounts of all Asset milestones dated
\* at that age
C30_AssetEventsSummed ==
    (input.kind = "milestones" /\ pc \in {"running", "done"})
      => \A k \in 2..Len(st.rows) :
            st.rows[k].BeginningAssets
              = st.assets[k] + EventSum(input.ms, st.rows[k].Age)

====
